---- MODULE Spec2Model ----
(***************************************************************************)
(* Segmented write-ahead log of rust_ros2_recorder (src/src/storage.rs).   *)
(*                                                                         *)
(* Files are sequences of byte cells.  One Storage instance is shared by   *)
(* two tasks that call append_record and rotate_segment; the process    *)
(* can be killed at any step and a new Storage is then constructed over    *)
(* the same root.  The sync daemon (src/src/sync.rs) is a second           *)
(* specification, SpecSync, over a root the store has written: one         *)
(* sync_loop task and two callers of queue_segment.                        *)
(*                                                                         *)
(* Scale.  A model checker cannot hold 16 MiB segments, so byte counts are *)
(* scaled down: MAX_SEGMENT_SIZE is 40 cells instead of 16 MiB and         *)
(* SAFETY_SLACK is 15 cells instead of 100 bytes.  The scaling keeps the   *)
(* order relations of the source: the slack is smaller than the smallest   *)
(* frame overhead (source: 100 < 8 + 94, the 94 being the shortest JSON    *)
(* metadata serde_json emits for RecordFrame; model: 15 < 8 + 10), several  *)
(* ordinary frames fit one segment, and one payload is larger than a       *)
(* segment.  Numbers inside the metadata (timestamp, payload_len, crc) and *)
(* in the checkpoint take one cell each instead of their decimal digits.   *)
(***************************************************************************)
EXTENDS Integers, Sequences, FiniteSets, TLC

\* ------------------------------------------------------------------ bounds
MaxCalls == 3
MaxCrashes == 1
MaxEnqueues == 3

\* the tasks that share the one Storage (Storage is Clone over an Arc)
Tasks == {1, 2}

\* ---------------------------------------------------------- program constants
MAX_SEGMENT_SIZE == 40
SAFETY_SLACK == 15

\* 0xDEADBEEF in little-endian byte order
MagicBytes == <<239, 190, 173, 222>>
\* the value of the "magic" field inside the metadata blob, one cell
MagicCell == 255

LBrace == 123
RBrace == 125
Quote == 34

\* --------------------------------------------------------------- inputs
TopicA == <<97>>
TopicBC == <<98, 99>>
NsR == <<114>>
SmallPayload == <<7>>
\* a payload whose frame (8 + 13 metadata cells + payload) is larger than a
\* segment, while payload + slack is not
BigPayload == [i \in 1..(MAX_SEGMENT_SIZE - 19) |-> 5]

\* what the callers append: a small record and an oversized one
Inputs ==
    { [topic |-> TopicA, namespace |-> NsR, payload |-> SmallPayload],
      [topic |-> TopicBC, namespace |-> NsR, payload |-> BigPayload] }

\* ----------------------------------------------------------------- codec
LE32(n) ==
    << n % 256, (n \div 256) % 256, (n \div 65536) % 256, (n \div 16777216) % 256 >>

\* u32::from_le_bytes.  TLC's integers are 32-bit signed, so a value of
\* 2^30 or more is represented by 2^30: it is only ever compared with file
\* lengths, all far below that.
FromLE32(b) ==
    IF b[4] >= 64 THEN 1073741824
    ELSE b[1] + 256 * b[2] + 65536 * b[3] + 16777216 * b[4]

RECURSIVE CrcFold(_, _, _)
CrcFold(data, i, h) ==
    IF i > Len(data) THEN h
    ELSE CrcFold(data, i + 1, (h * 31 + data[i] + 1) % 251)

\* a checksum that does not depend on the payload
Crc32Blind(data) == 0

\* crc32fast::hash, abstracted to a one-cell positional checksum
Crc32(data) == CrcFold(data, 1, 0)

\* serde_json::to_string(&RecordFrame): the fields in declaration order
MetaJson(frame) ==
    <<LBrace, frame.magic, frame.timestamp, Quote>> \o frame.topic
      \o <<Quote, Quote>> \o frame.namespace
      \o <<Quote, frame.payload_len, frame.payload_crc32, RBrace>>

\* a length prefix that counts the magic as well
ToBytesLongPrefix(frame, payload) ==
    LET meta_json == MetaJson(frame)
    IN  MagicBytes \o LE32(Len(meta_json) + 4) \o meta_json \o payload

ToBytes(frame, payload) ==
    LET meta_json == MetaJson(frame)
    IN  MagicBytes \o LE32(Len(meta_json)) \o meta_json \o payload

\* the RecordFrame append_record builds for its arguments
MakeFrame(topic, namespace, data, timestamp) ==
    [ magic |-> MagicCell, timestamp |-> timestamp, topic |-> topic,
      namespace |-> namespace, payload_len |-> Len(data),
      payload_crc32 |-> Crc32(data) ]

FrameData(r) ==
    ToBytes(MakeFrame(r.topic, r.namespace, r.payload, r.timestamp), r.payload)

\* first index j >= i with b[j] = Quote, or 0
RECURSIVE FindQuote(_, _)
FindQuote(b, i) ==
    IF i > Len(b) THEN 0
    ELSE IF b[i] = Quote THEN i
    ELSE FindQuote(b, i + 1)

\* serde_json::from_slice::<RecordFrame>: the frame, or ok = FALSE
ParseMeta(b) ==
    LET bad == [ok |-> FALSE, timestamp |-> 0, topic |-> <<>>, namespace |-> <<>>,
                payload_len |-> 0, payload_crc32 |-> 0]
        q2 == FindQuote(b, 5)
        q4 == IF q2 = 0 THEN 0 ELSE FindQuote(b, q2 + 2)
    IN  IF Len(b) < 9 \/ b[1] # LBrace \/ b[Len(b)] # RBrace \/ b[4] # Quote
        THEN bad
        ELSE IF q2 = 0 \/ q2 + 1 > Len(b) \/ b[q2 + 1] # Quote \/ q4 = 0
        THEN bad
        ELSE IF Len(b) # q4 + 3
        THEN bad
        ELSE [ ok |-> TRUE, timestamp |-> b[3],
               topic |-> SubSeq(b, 5, q2 - 1),
               namespace |-> SubSeq(b, q2 + 2, q4 - 1),
               payload_len |-> b[q4 + 1], payload_crc32 |-> b[q4 + 2] ]

\* RecordFrame::from_reader at offset pos (0-based) of a file:
\* kind "none" (end of stream), "err", or "some" with the record and the
\* offset after the frame
FromReader(bytes, pos) ==
    LET n == Len(bytes)
        res(k, e, r, nx) == [kind |-> k, err |-> e, rec |-> r, next |-> nx]
        norec == <<>>
        meta_len == FromLE32(SubSeq(bytes, pos + 5, pos + 8))
        meta == ParseMeta(SubSeq(bytes, pos + 9, pos + 8 + meta_len))
        pstart == pos + 8 + meta_len
        payload == SubSeq(bytes, pstart + 1, pstart + meta.payload_len)
    IN  IF pos + 4 > n THEN res("none", "", norec, pos)
        ELSE IF SubSeq(bytes, pos + 1, pos + 4) # MagicBytes
        THEN res("none", "", norec, pos)
        ELSE IF pos + 8 > n THEN res("err", "truncated", norec, pos)
        ELSE IF pos + 8 + meta_len > n THEN res("err", "truncated", norec, pos)
        ELSE IF ~meta.ok THEN res("err", "encoding", norec, pos)
        ELSE IF pstart + meta.payload_len > n THEN res("err", "truncated", norec, pos)
        ELSE IF Crc32(payload) # meta.payload_crc32 THEN res("err", "crc", norec, pos)
        ELSE res("some", "",
                 <<meta.topic, meta.namespace, meta.timestamp, payload>>,
                 pstart + meta.payload_len)

\* a replay that takes bytes it cannot decode after the last frame for an error
RECURSIVE ReplayFromStrict(_, _, _)
ReplayFromStrict(bytes, pos, records) ==
    LET f == FromReader(bytes, pos)
    IN  IF f.kind = "none"
        THEN (IF f.next = Len(bytes) THEN [ok |-> TRUE, records |-> records]
              ELSE [ok |-> FALSE, records |-> <<>>])
        ELSE IF f.kind = "err" THEN [ok |-> FALSE, records |-> <<>>]
        ELSE ReplayFromStrict(bytes, f.next, Append(records, f.rec))

RECURSIVE ReplayFrom(_, _, _)
ReplayFrom(bytes, pos, records) ==
    LET f == FromReader(bytes, pos)
    IN  IF f.kind = "none" THEN [ok |-> TRUE, records |-> records]
        ELSE IF f.kind = "err" THEN [ok |-> FALSE, records |-> <<>>]
        ELSE ReplayFrom(bytes, f.next, Append(records, f.rec))

\* Storage::replay_segment on a file with these bytes
ReplaySegment(bytes) == ReplayFrom(bytes, 0, <<>>)

\* ------------------------------------------------------------------ state
VARIABLES
    segs,       \* segment-{N}.log: index -> bytes, for the files that exist
    synced,     \* index -> number of leading bytes covered by the last sync_all
    ckpt,       \* bytes of .checkpoint, or Absent
    tmp,        \* bytes of .checkpoint.tmp, or Absent
    up,         \* a Storage has been constructed and the process runs
    inner,      \* StorageInner: current_segment, current_segment_size
    lock,       \* holder of the store mutex, 0 when free
    pc,         \* per task: position inside append_record / rotate_segment
    op,         \* per task: "append" or "rotate", the call in progress
    rec,        \* per task: the arguments of the append in progress
    rotated,    \* per task: this append_record call has run rotate_segment
    calls,      \* number of calls made so far (also the callers' clock)
    crashes,    \* number of kills so far
    log,        \* history: the records written, in the order of their writes
    acq,        \* history: the records of the appends, in the order in which they
                \* took the store mutex for their write
    hiSeg,      \* history: highest current_segment the root has seen
    lastRot,    \* history: index the last completed rotation moved to, 0 if none
    ev,         \* history: what the last step did
    \* SyncDaemon (src/src/sync.rs)
    upload_queue,   \* Vec<UploadState>, front first
    sync_status,    \* SyncStatus
    qlock,          \* holder of the upload_queue mutex, "" when free
    slock,          \* holder of the sync_status mutex, "" when free
    dpc,            \* position of the sync_loop task
    max_retries,    \* sync_loop's local retry budget
    d_state,        \* process_next_upload: the UploadState taken off the queue
    d_data,         \* process_next_upload: the bytes read from the segment
    d_idx,          \* process_next_upload: index of the next chunk to upload
    ppc,            \* per caller of queue_segment: position inside the call
    pstate,         \* per caller of queue_segment: the UploadState it built
    enq,            \* history: the UploadStates pushed, in push order
    uploads,        \* history: <<timestamp, chunk index, chunk>> per upload
    attempts,       \* history: result of each process_next_upload, in order
    slept           \* history: seconds of the sleep the loop is in or last left

storeVars == << segs, synced, ckpt, tmp, up, inner, lock, pc, op, rec, rotated,
                calls, crashes, log, acq, hiSeg, lastRot, ev >>

syncVars == << upload_queue, sync_status, qlock, slock, dpc, max_retries,
               d_state, d_data, d_idx, ppc, pstate, enq, uploads, attempts,
               slept >>

vars == << storeVars, syncVars >>

Absent == << -1 >>

NoRec == [topic |-> <<>>, namespace |-> <<>>, payload |-> <<>>, timestamp |-> 0]

\* the tuple replay_segment returns for a record
RecordOfInput(r) == << r.topic, r.namespace, r.timestamp, r.payload >>

Ev(kind, t, seg, off, prev) ==
    [kind |-> kind, t |-> t, seg |-> seg, off |-> off, prev |-> prev]

\* ------------------------------------------------------------- checkpoint
\* the manifest written for the index after the increment
ManifestOfNext(segment, now) == <<LBrace, segment + 1, now, RBrace>>

\* serde_json::json!({"current_segment": segment, "timestamp": now}).to_string()
Manifest(segment, now) == <<LBrace, segment, now, RBrace>>

\* serde_json::from_str + manifest["current_segment"].as_u64().unwrap_or(0)
\* a document that is not JSON is an error; a JSON object without the key
\* gives 0
ParseManifest(data) ==
    IF Len(data) = 4 /\ data[1] = LBrace /\ data[4] = RBrace
    THEN [ok |-> TRUE, segment |-> data[2]]
    ELSE IF data = <<LBrace, RBrace>>
    THEN [ok |-> TRUE, segment |-> 0]
    ELSE [ok |-> FALSE, segment |-> 0]

\* Storage::recover_checkpoint
RecoverCheckpoint(file) ==
    IF file = Absent THEN [ok |-> TRUE, segment |-> 0]
    ELSE ParseManifest(file)

\* writing the manifest in place
CheckpointWriteInPlace == "ckpt"

\* the file write_checkpoint writes the manifest to, before the rename
CheckpointWritePath == "tmp"

\* ------------------------------------------------------------ file system
\* OpenOptions::new().create(true).append(true) + write_all
\* the file opened without append(true): the write goes to offset 0
WriteAtStart(fs, n, bytes) ==
    [m \in DOMAIN fs \cup {n} |->
        IF m = n
        THEN (IF n \in DOMAIN fs /\ Len(fs[n]) > Len(bytes)
              THEN bytes \o SubSeq(fs[n], Len(bytes) + 1, Len(fs[n]))
              ELSE bytes)
        ELSE fs[m]]

AppendTo(fs, n, bytes) ==
    [m \in DOMAIN fs \cup {n} |->
        IF m = n THEN (IF n \in DOMAIN fs THEN fs[n] ELSE <<>>) \o bytes
        ELSE fs[m]]

\* tokio::fs::File::create: creates the file, or truncates it when it exists
CreateFile(fs, n) ==
    [m \in DOMAIN fs \cup {n} |-> IF m = n THEN <<>> ELSE fs[m]]

Touch(sy, n) ==
    [m \in DOMAIN sy \cup {n} |-> IF m = n THEN 0 ELSE sy[m]]

\* ------------------------------------------------------------------- init
\* the UploadState slot of a task that holds none
NoState ==
    [segment_path |-> -1, segment_sha256 |-> 0, chunks_uploaded |-> << >>,
     timestamp |-> 0]

\* the retry budget main.rs passes to sync_loop, and the value the loop
\* resets it to
INITIAL_RETRIES == 7

\* the tasks that call queue_segment on the one SyncDaemon
Callers == {1, 2}

\* SyncDaemon::new, and sync_loop(7) spawned but not yet run.
\* last_sync_time: 0 stands for None.
SyncDaemonNew ==
    /\ upload_queue = << >>
    /\ sync_status = [is_syncing |-> FALSE, last_sync_time |-> 0,
                      upload_errors |-> 0, total_segments_synced |-> 0]
    /\ qlock = ""
    /\ slock = ""
    /\ dpc = "top"
    /\ max_retries = INITIAL_RETRIES
    /\ d_state = NoState
    /\ d_data = << >>
    /\ d_idx = 0
    /\ ppc = [c \in Callers |-> "idle"]
    /\ pstate = [c \in Callers |-> NoState]
    /\ enq = << >>
    /\ uploads = << >>
    /\ attempts = << >>
    /\ slept = 0

\* Storage::new over a fresh root: no segment, no checkpoint
Init ==
    /\ segs = << >>
    /\ synced = << >>
    /\ ckpt = Absent
    /\ tmp = Absent
    /\ up = TRUE
    /\ inner = [current_segment |-> 0, current_segment_size |-> 0]
    /\ lock = 0
    /\ pc = [t \in Tasks |-> "idle"]
    /\ op = [t \in Tasks |-> "none"]
    /\ rec = [t \in Tasks |-> NoRec]
    /\ rotated = [t \in Tasks |-> FALSE]
    /\ calls = 0
    /\ crashes = 0
    /\ log = << >>
    /\ acq = << >>
    /\ hiSeg = 0
    /\ lastRot = 0
    /\ ev = Ev("new", 0, 0, 0, 0)
    /\ SyncDaemonNew

Quiet == Ev("step", 0, 0, 0, 0)

Max(a, b) == IF a >= b THEN a ELSE b

\* ---------------------------------------------------------- append_record
CallAppend(t, in) ==
    /\ up
    /\ pc[t] = "idle"
    /\ calls < MaxCalls
    /\ calls' = calls + 1
    /\ op' = [op EXCEPT ![t] = "append"]
    /\ rec' = [rec EXCEPT ![t] =
                  [topic |-> in.topic, namespace |-> in.namespace,
                   payload |-> in.payload, timestamp |-> calls + 1]]
    /\ rotated' = [rotated EXCEPT ![t] = FALSE]
    /\ pc' = [pc EXCEPT ![t] = "a_lock"]
    /\ ev' = Quiet
    /\ UNCHANGED << segs, synced, ckpt, tmp, up, inner, lock, crashes, log, acq,
                    hiSeg, lastRot >>
    /\ UNCHANGED syncVars

\* let projected_size = inner.current_segment_size + data.len() as u64 + 100
ProjectedSize(size, data) == size + Len(data) + SAFETY_SLACK

\* the same lines without drop(inner): rotate_segment is called with the
\* guard alive
AppendLockKeepsGuard(t) ==
    /\ pc[t] = "a_lock"
    /\ lock = 0
    /\ lock' = t
    /\ IF ProjectedSize(inner.current_segment_size, rec[t].payload) > MAX_SEGMENT_SIZE
       THEN /\ pc' = [pc EXCEPT ![t] = "r_lock"]
            /\ acq' = acq
       ELSE /\ pc' = [pc EXCEPT ![t] = "a_write"]
            /\ acq' = Append(acq, RecordOfInput(rec[t]))
    /\ ev' = Quiet
    /\ UNCHANGED << segs, synced, ckpt, tmp, up, inner, op, rec, rotated, calls,
                    crashes, log, hiSeg, lastRot >>
    /\ UNCHANGED syncVars

\* lines 90-97: take the lock; on projected overflow drop it and go to rotate
AppendLock(t) ==
    /\ pc[t] = "a_lock"
    /\ lock = 0
    /\ IF ProjectedSize(inner.current_segment_size, rec[t].payload) > MAX_SEGMENT_SIZE
       THEN /\ lock' = 0
            /\ pc' = [pc EXCEPT ![t] = "r_lock"]
            /\ acq' = acq
       ELSE /\ lock' = t
            /\ pc' = [pc EXCEPT ![t] = "a_write"]
            /\ acq' = Append(acq, RecordOfInput(rec[t]))
    /\ ev' = Quiet
    /\ UNCHANGED << segs, synced, ckpt, tmp, up, inner, op, rec, rotated, calls,
                    crashes, log, hiSeg, lastRot >>
    /\ UNCHANGED syncVars

\* line 96: inner = self.inner.lock().await, after the rotation
AppendRelock(t) ==
    /\ pc[t] = "a_relock"
    /\ lock = 0
    /\ lock' = t
    /\ acq' = Append(acq, RecordOfInput(rec[t]))
    /\ pc' = [pc EXCEPT ![t] = "a_write"]
    /\ ev' = Quiet
    /\ UNCHANGED << segs, synced, ckpt, tmp, up, inner, op, rec, rotated, calls,
                    crashes, log, hiSeg, lastRot >>
    /\ UNCHANGED syncVars

\* lines 99-114: build the frame, open segment-{current_segment}.log with
\* create+append, write_all
AppendWrite(t) ==
    /\ pc[t] = "a_write"
    /\ lock = t
    /\ segs' = AppendTo(segs, inner.current_segment, FrameData(rec[t]))
    /\ synced' = IF inner.current_segment \in DOMAIN synced THEN synced
                 ELSE Touch(synced, inner.current_segment)
    /\ log' = Append(log, << rec[t].topic, rec[t].namespace, rec[t].timestamp,
                             rec[t].payload >>)
    /\ acq' = acq
    /\ pc' = [pc EXCEPT ![t] = "a_sync"]
    /\ ev' = Quiet
    /\ UNCHANGED << ckpt, tmp, up, inner, lock, op, rec, rotated, calls, crashes,
                    hiSeg, lastRot >>
    /\ UNCHANGED syncVars

\* f.sync_all(): everything written to the file so far is on stable storage
SyncAll(sy, fs, n) == [sy EXCEPT ![n] = Len(fs[n])]

\* lines 115-119: sync_all, add the frame length to current_segment_size,
\* return Ok (the guard is dropped on return)
AppendSync(t) ==
    /\ pc[t] = "a_sync"
    /\ lock = t
    /\ synced' = SyncAll(synced, segs, inner.current_segment)
    /\ inner' = [inner EXCEPT !.current_segment_size = @ + Len(FrameData(rec[t]))]
    /\ lock' = 0
    /\ pc' = [pc EXCEPT ![t] = "idle"]
    /\ op' = [op EXCEPT ![t] = "none"]
    /\ ev' = Ev("append_ok", t, inner.current_segment,
                Len(segs[inner.current_segment]) - Len(FrameData(rec[t])), 0)
    /\ UNCHANGED << segs, ckpt, tmp, up, rec, rotated, calls, crashes, log, acq,
                    hiSeg, lastRot >>
    /\ UNCHANGED syncVars

\* --------------------------------------------------------- rotate_segment
CallRotate(t) ==
    /\ up
    /\ pc[t] = "idle"
    /\ calls < MaxCalls
    /\ calls' = calls + 1
    /\ op' = [op EXCEPT ![t] = "rotate"]
    /\ rec' = [rec EXCEPT ![t] = NoRec]
    /\ rotated' = [rotated EXCEPT ![t] = FALSE]
    /\ pc' = [pc EXCEPT ![t] = "r_lock"]
    /\ ev' = Quiet
    /\ UNCHANGED << segs, synced, ckpt, tmp, up, inner, lock, crashes, log, acq,
                    hiSeg, lastRot >>
    /\ UNCHANGED syncVars

\* line 123
RotateLock(t) ==
    /\ pc[t] = "r_lock"
    /\ lock = 0
    /\ lock' = t
    /\ pc' = [pc EXCEPT ![t] = "r_tmp"]
    /\ ev' = Quiet
    /\ UNCHANGED << segs, synced, ckpt, tmp, up, inner, op, rec, rotated, calls,
                    crashes, log, acq, hiSeg, lastRot >>
    /\ UNCHANGED syncVars

\* write_checkpoint, line 172: tokio::fs::write(&tmp_path, manifest)
WriteManifest(t) ==
    /\ pc[t] = "r_tmp"
    /\ lock = t
    /\ IF CheckpointWritePath = "tmp"
       THEN /\ tmp' = Manifest(inner.current_segment, calls)
            /\ ckpt' = ckpt
       ELSE /\ ckpt' = Manifest(inner.current_segment, calls)
            /\ tmp' = tmp
    /\ pc' = [pc EXCEPT ![t] = "r_rename"]
    /\ ev' = Quiet
    /\ UNCHANGED << segs, synced, up, inner, lock, op, rec, rotated, calls,
                    crashes, log, acq, hiSeg, lastRot >>
    /\ UNCHANGED syncVars

\* write_checkpoint, line 173: tokio::fs::rename(&tmp_path, &path); a missing
\* source makes rename, and with it the whole call, fail
RenameManifest(t) ==
    /\ pc[t] = "r_rename"
    /\ lock = t
    /\ IF tmp # Absent
       THEN /\ ckpt' = tmp
            /\ tmp' = Absent
            /\ pc' = [pc EXCEPT ![t] = "r_create"]
            /\ UNCHANGED << lock, op >>
            /\ ev' = Quiet
       ELSE /\ UNCHANGED << ckpt, tmp >>
            /\ lock' = 0
            /\ pc' = [pc EXCEPT ![t] = "idle"]
            /\ op' = [op EXCEPT ![t] = "none"]
            /\ ev' = Ev("err", t, 0, 0, 0)
    /\ UNCHANGED << segs, synced, up, inner, rec, rotated, calls, crashes, log, acq,
                    hiSeg, lastRot >>
    /\ UNCHANGED syncVars

\* the path computed for the index after the next one
NextSegmentSkip(n) == n + 2

\* inner.current_segment += 1
NextSegment(n) == n + 1

\* lines 127-132: advance the index, reset the size, create the new file,
\* return its path; control returns to append_record when it made the call
RotateCreate(t) ==
    LET n == NextSegment(inner.current_segment)
    IN  /\ pc[t] = "r_create"
        /\ lock = t
        /\ inner' = [current_segment |-> n, current_segment_size |-> 0]
        /\ segs' = CreateFile(segs, n)
        /\ synced' = Touch(synced, n)
        /\ lock' = 0
        /\ IF op[t] = "append"
           THEN /\ pc' = [pc EXCEPT ![t] = "a_relock"]
                /\ rotated' = [rotated EXCEPT ![t] = TRUE]
                /\ op' = op
           ELSE /\ pc' = [pc EXCEPT ![t] = "idle"]
                /\ rotated' = rotated
                /\ op' = [op EXCEPT ![t] = "none"]
        /\ hiSeg' = Max(hiSeg, n)
        /\ lastRot' = n
        /\ ev' = Ev("rotate_ok", t, n, 0, inner.current_segment)
        /\ UNCHANGED << ckpt, tmp, up, rec, calls, crashes, log, acq >>
        /\ UNCHANGED syncVars

\* ------------------------------------------------------ kill and restart
\* where a kill cuts a write of n bytes: before the first byte, inside the
\* first four bytes (a frame's magic), inside the next four (its metadata
\* length), further in (its metadata), and one byte before the end
CutPoints(n) == { k \in {0, 1, 2, 6, 10, n - 1} : 0 <= k /\ k < n }

\* what a write_all of bytes that is cut short by a kill leaves of the file
\* the write started from (old): nothing done, or a proper prefix written
CutShort(old, bytes) ==
    {old} \cup { old \o SubSeq(bytes, 1, k) : k \in CutPoints(Len(bytes)) }

\* the segment files after a kill: a task inside open+write_all (lines
\* 113-114) leaves its file absent, empty or with a proper prefix of its frame
KilledSegs ==
    IF \E t \in Tasks : pc[t] = "a_write"
    THEN LET t == CHOOSE u \in Tasks : pc[u] = "a_write"
             n == inner.current_segment
             old == IF n \in DOMAIN segs THEN segs[n] ELSE << >>
         IN  {segs} \cup
             { [m \in DOMAIN segs \cup {n} |-> IF m = n THEN b ELSE segs[m]] :
                 b \in CutShort(old, FrameData(rec[t])) }
    ELSE {segs}

\* the file tokio::fs::write was writing (line 172) after a kill: untouched,
\* or truncated and holding a proper prefix of the manifest
KilledManifest(old) ==
    IF \E t \in Tasks : pc[t] = "r_tmp"
    THEN {old} \cup CutShort(<< >>, Manifest(inner.current_segment, calls))
    ELSE {old}

\* The process is killed at this point (every task dies with it, memory is
\* lost, the files stay), and Storage::new (lines 79-87) runs over the same
\* root: recover_checkpoint, current_segment_size = 0.  A checkpoint that
\* does not parse makes Storage::new return Err: no store.  ev records the
\* index the killed process was writing to and the length that file had.
Crash ==
    /\ up
    /\ crashes < MaxCrashes
    /\ crashes' = crashes + 1
    /\ segs' \in KilledSegs
    /\ synced' = [m \in DOMAIN segs' |-> IF m \in DOMAIN synced THEN synced[m] ELSE 0]
    /\ IF CheckpointWritePath = "tmp"
       THEN /\ tmp' \in KilledManifest(tmp)
            /\ ckpt' = ckpt
       ELSE /\ ckpt' \in KilledManifest(ckpt)
            /\ tmp' = tmp
    /\ LET r == RecoverCheckpoint(ckpt')
       IN  /\ up' = r.ok
           /\ inner' = [current_segment |-> r.segment, current_segment_size |-> 0]
           /\ ev' = Ev("new", 0, r.segment,
                       IF inner.current_segment \in DOMAIN segs
                       THEN Len(segs[inner.current_segment]) ELSE 0,
                       inner.current_segment)
    /\ lock' = 0
    /\ pc' = [t \in Tasks |-> "idle"]
    /\ op' = [t \in Tasks |-> "none"]
    /\ rec' = [t \in Tasks |-> NoRec]
    /\ rotated' = [t \in Tasks |-> FALSE]
    /\ UNCHANGED << calls, log, acq, hiSeg, lastRot >>
    /\ UNCHANGED syncVars

\* ---------------------------------------------------------- specification
Step(t) ==
    \/ \E in \in Inputs : CallAppend(t, in)
    \/ AppendLock(t)
    \/ AppendRelock(t)
    \/ AppendWrite(t)
    \/ AppendSync(t)
    \/ CallRotate(t)
    \/ RotateLock(t)
    \/ WriteManifest(t)
    \/ RenameManifest(t)
    \/ RotateCreate(t)

Next == (\E t \in Tasks : Step(t)) \/ Crash

Spec == Init /\ [][Next]_vars

\* the same store without kills: one Storage instance on a fresh root
NextNoCrash == \E t \in Tasks : Step(t)

SpecNoCrash == Init /\ [][NextNoCrash]_vars

\* ------------------------------------------------- calls that return Err
\* Every file operation of the store ends in `?`: when it fails the call
\* returns the error at once, its guard is dropped, and the error goes on
\* through rotate_segment to append_record when that made the call (line
\* 95).  ev records the index and size the failing step started from and,
\* in prev, whether the call was an append_record (1) or not (0).
ErrEv(kind, t) ==
    Ev(kind, t, inner.current_segment, inner.current_segment_size,
       IF op[t] = "append" THEN 1 ELSE 0)

\* the rotation with the index advanced before the checkpoint is written
WriteManifestFailsLate(t) ==
    /\ pc[t] = "r_tmp"
    /\ lock = t
    /\ tmp' \in {tmp, << >>}
    /\ inner' = [current_segment |-> NextSegment(inner.current_segment),
                 current_segment_size |-> 0]
    /\ lock' = 0
    /\ pc' = [pc EXCEPT ![t] = "idle"]
    /\ op' = [op EXCEPT ![t] = "none"]
    /\ ev' = ErrEv("ckpt_err", t)
    /\ UNCHANGED << segs, synced, ckpt, up, rec, rotated, calls, crashes,
                    log, acq, hiSeg, lastRot >>
    /\ UNCHANGED syncVars

\* write_checkpoint, line 172: tokio::fs::write fails.  The temporary file
\* is as it was (it could not be opened), or was truncated and is empty.
WriteManifestFails(t) ==
    /\ pc[t] = "r_tmp"
    /\ lock = t
    /\ tmp' \in {tmp, << >>}
    /\ lock' = 0
    /\ pc' = [pc EXCEPT ![t] = "idle"]
    /\ op' = [op EXCEPT ![t] = "none"]
    /\ ev' = ErrEv("ckpt_err", t)
    /\ UNCHANGED << segs, synced, ckpt, up, inner, rec, rotated, calls, crashes,
                    log, acq, hiSeg, lastRot >>
    /\ UNCHANGED syncVars

\* write_checkpoint, line 173: tokio::fs::rename fails; both files stay
RenameManifestFails(t) ==
    /\ pc[t] = "r_rename"
    /\ lock = t
    /\ lock' = 0
    /\ pc' = [pc EXCEPT ![t] = "idle"]
    /\ op' = [op EXCEPT ![t] = "none"]
    /\ ev' = ErrEv("ckpt_err", t)
    /\ UNCHANGED << segs, synced, ckpt, tmp, up, inner, rec, rotated, calls,
                    crashes, log, acq, hiSeg, lastRot >>
    /\ UNCHANGED syncVars

\* lines 127-130: the index is advanced and the size reset, then
\* tokio::fs::File::create fails: no file is made
RotateCreateFails(t) ==
    LET n == NextSegment(inner.current_segment)
    IN  /\ pc[t] = "r_create"
        /\ lock = t
        /\ inner' = [current_segment |-> n, current_segment_size |-> 0]
        /\ hiSeg' = Max(hiSeg, n)
        /\ lock' = 0
        /\ pc' = [pc EXCEPT ![t] = "idle"]
        /\ op' = [op EXCEPT ![t] = "none"]
        /\ ev' = ErrEv("create_err", t)
        /\ UNCHANGED << segs, synced, ckpt, tmp, up, rec, rotated, calls,
                        crashes, log, acq, lastRot >>
        /\ UNCHANGED syncVars

\* lines 113-114: open fails (nothing is written), or write_all fails after
\* it has written a part of the frame (here: all but its last byte)
AppendWriteFails(t) ==
    /\ pc[t] = "a_write"
    /\ lock = t
    /\ \/ segs' = segs
       \/ segs' = AppendTo(segs, inner.current_segment,
                           SubSeq(FrameData(rec[t]), 1, Len(FrameData(rec[t])) - 1))
    /\ synced' = [m \in DOMAIN segs' |-> IF m \in DOMAIN synced THEN synced[m] ELSE 0]
    /\ lock' = 0
    /\ pc' = [pc EXCEPT ![t] = "idle"]
    /\ op' = [op EXCEPT ![t] = "none"]
    /\ ev' = ErrEv("append_err", t)
    /\ UNCHANGED << ckpt, tmp, up, inner, rec, rotated, calls, crashes, log,
                    acq, hiSeg, lastRot >>
    /\ UNCHANGED syncVars

\* the size added before sync_all is called
AppendSyncFailsCounted(t) ==
    /\ pc[t] = "a_sync"
    /\ lock = t
    /\ inner' = [inner EXCEPT !.current_segment_size = @ + Len(FrameData(rec[t]))]
    /\ lock' = 0
    /\ pc' = [pc EXCEPT ![t] = "idle"]
    /\ op' = [op EXCEPT ![t] = "none"]
    /\ ev' = ErrEv("append_err", t)
    /\ UNCHANGED << segs, synced, ckpt, tmp, up, rec, rotated, calls,
                    crashes, log, acq, hiSeg, lastRot >>
    /\ UNCHANGED syncVars

\* line 115: sync_all fails; the frame is in the file, the size is not added
AppendSyncFails(t) ==
    /\ pc[t] = "a_sync"
    /\ lock = t
    /\ lock' = 0
    /\ pc' = [pc EXCEPT ![t] = "idle"]
    /\ op' = [op EXCEPT ![t] = "none"]
    /\ ev' = ErrEv("append_err", t)
    /\ UNCHANGED << segs, synced, ckpt, tmp, up, inner, rec, rotated, calls,
                    crashes, log, acq, hiSeg, lastRot >>
    /\ UNCHANGED syncVars

StepFails(t) ==
    \/ WriteManifestFails(t)
    \/ RenameManifestFails(t)
    \/ RotateCreateFails(t)
    \/ AppendWriteFails(t)
    \/ AppendSyncFails(t)

NextIoErr == \E t \in Tasks : Step(t) \/ StepFails(t)

\* one Storage instance whose file operations can fail
SpecIoErr == Init /\ [][NextIoErr]_vars

\* ------------------------------------------------- a damaged .checkpoint
\* what a .checkpoint hit by outside damage holds: an empty file, a manifest
\* cut after its first byte, a zeroed block, and (still JSON) an object
\* without the key
DamagedCheckpoints == { << >>, <<LBrace>>, <<0, 0, 0, 0>>, <<LBrace, RBrace>> }

\* something other than this program (a failing disk, an operator's editor)
\* overwrites an existing .checkpoint
DamageCheckpoint(bytes) ==
    /\ ckpt # Absent
    /\ \E n \in 0..hiSeg, c \in 0..calls : ckpt = Manifest(n, c)
    /\ crashes < MaxCrashes
    /\ ckpt' = bytes
    /\ ev' = Quiet
    /\ UNCHANGED << segs, synced, tmp, up, inner, lock, pc, op, rec, rotated,
                    calls, crashes, log, acq, hiSeg, lastRot >>
    /\ UNCHANGED syncVars

NextDamagedCheckpoint ==
    \/ \E t \in Tasks : Step(t)
    \/ Crash
    \/ \E bytes \in DamagedCheckpoints : DamageCheckpoint(bytes)

\* the store on a root whose .checkpoint can be damaged from outside
SpecDamagedCheckpoint == Init /\ [][NextDamagedCheckpoint]_vars

\* ============================================================ sync daemon
\* config.chunk_size, scaled like the segment size
CHUNK_SIZE == 16

\* sleep(Duration::from_secs(5)) of the idle branch
IDLE_POLL_SECS == 5

\* Sha256 digest of a file, abstracted to one cell
Sha256(bytes) == CrcFold(bytes, 1, 17)

\* data.chunks(chunk_size): number of chunks, and chunk i (0-based)
\* data.len() / chunk_size: a short last chunk is not counted
NumChunksFloor(bytes) == Len(bytes) \div CHUNK_SIZE

NumChunks(bytes) == (Len(bytes) + CHUNK_SIZE - 1) \div CHUNK_SIZE

Chunk(bytes, i) ==
    SubSeq(bytes, i * CHUNK_SIZE + 1,
           IF (i + 1) * CHUNK_SIZE < Len(bytes) THEN (i + 1) * CHUNK_SIZE
           ELSE Len(bytes))

\* what tokio::fs::read of an existing file can return: the bytes, or an
\* I/O error
ReadOutcomes == {"ok", "err"}

\* mock_upload_chunk: always Ok(())
MockUploadChunk == {"ok"}

\* the paths callers pass to queue_segment: the segments of the root and
\* one file that does not exist
SyncPaths == {0, 1, 2, 3}

\* SystemTime::now() as a logical clock, one per place that reads it:
\* queue_segment reads the number of UploadStates built so far plus one,
\* sync_loop the number of process_next_upload calls that have returned
CallerNow == Len(enq) + Cardinality({c \in Callers : ppc[c] = "push"}) + 1

DaemonNow == Len(attempts)

\* The root the daemon's store is on: append, rotate, append of an oversized
\* record, rotate.  segment-0.log holds one frame, segment-1.log one large
\* frame, segment-2.log is empty.
SyncRootInit ==
    LET r1 == [topic |-> TopicA, namespace |-> NsR, payload |-> SmallPayload,
               timestamp |-> 1]
        r3 == [topic |-> TopicBC, namespace |-> NsR, payload |-> BigPayload,
               timestamp |-> 3]
    IN  /\ segs = << >> @@ (0 :> FrameData(r1)) @@ (1 :> FrameData(r3)) @@ (2 :> << >>)
        /\ synced = [m \in 0..2 |-> Len(segs[m])]
        /\ ckpt = Manifest(1, 4)
        /\ tmp = Absent
        /\ up = TRUE
        /\ inner = [current_segment |-> 2, current_segment_size |-> 0]
        /\ lock = 0
        /\ pc = [t \in Tasks |-> "idle"]
        /\ op = [t \in Tasks |-> "none"]
        /\ rec = [t \in Tasks |-> NoRec]
        /\ rotated = [t \in Tasks |-> FALSE]
        /\ calls = 4
        /\ crashes = 0
        /\ log = << RecordOfInput(r1), RecordOfInput(r3) >>
        /\ acq = << RecordOfInput(r1), RecordOfInput(r3) >>
        /\ hiSeg = 2
        /\ lastRot = 2
        /\ ev = Ev("rotate_ok", 1, 2, 0, 1)

InitSync == SyncRootInit /\ SyncDaemonNew

\* ---------------------------------------------------------- queue_segment
\* lines 67-75: checksum the file (an unreadable path makes the call return
\* Err), build the UploadState
QueueChecksum(c, path) ==
    /\ ppc[c] = "idle"
    /\ Len(enq) + Cardinality({d \in Callers : ppc[d] = "push"}) < MaxEnqueues
    /\ IF path \in DOMAIN segs
       THEN /\ pstate' = [pstate EXCEPT ![c] =
                            [segment_path |-> path,
                             segment_sha256 |-> Sha256(segs[path]),
                             chunks_uploaded |-> << >>,
                             timestamp |-> CallerNow]]
            /\ ppc' = [ppc EXCEPT ![c] = "push"]
       ELSE UNCHANGED << pstate, ppc >>
    /\ UNCHANGED << upload_queue, sync_status, qlock, slock, dpc, max_retries,
                    d_state, d_data, d_idx, enq, uploads, attempts, slept >>
    /\ UNCHANGED storeVars

\* line 76: self.upload_queue.lock().await.push(state); return Ok
QueuePush(c) ==
    /\ ppc[c] = "push"
    /\ qlock = ""
    /\ upload_queue' = Append(upload_queue, pstate[c])
    /\ enq' = Append(enq, pstate[c])
    /\ ppc' = [ppc EXCEPT ![c] = "idle"]
    /\ pstate' = [pstate EXCEPT ![c] = NoState]
    /\ UNCHANGED << sync_status, qlock, slock, dpc, max_retries, d_state, d_data,
                    d_idx, uploads, attempts, slept >>
    /\ UNCHANGED storeVars

\* -------------------------------------------------------------- sync_loop
\* line 85: let queue = self.upload_queue.lock().await
LoopLock ==
    /\ dpc = "top"
    /\ qlock = ""
    /\ qlock' = "daemon"
    /\ dpc' = "flag"
    /\ UNCHANGED << upload_queue, sync_status, slock, max_retries, d_state,
                    d_data, d_idx, ppc, pstate, enq, uploads, attempts, slept >>
    /\ UNCHANGED storeVars

\* the same block without the store to is_syncing on the non-empty path
LoopFlagNoSet ==
    /\ dpc = "flag"
    /\ slock = ""
    /\ IF upload_queue # << >>
       THEN /\ sync_status' = sync_status
            /\ qlock' = ""
            /\ dpc' = "process"
            /\ slept' = slept
       ELSE /\ sync_status' = [sync_status EXCEPT !.is_syncing = FALSE]
            /\ qlock' = qlock
            /\ dpc' = "idle_sleep"
            /\ slept' = IDLE_POLL_SECS
    /\ UNCHANGED << upload_queue, slock, max_retries, d_state, d_data, d_idx,
                    ppc, pstate, enq, uploads, attempts >>
    /\ UNCHANGED storeVars

\* lines 86-93: lock the status and set is_syncing.  With a non-empty queue
\* both guards are dropped at the end of the block; with an empty one the
\* status guard is dropped and the task sleeps with the queue guard alive.
LoopFlag ==
    /\ dpc = "flag"
    /\ slock = ""
    /\ IF upload_queue # << >>
       THEN /\ sync_status' = [sync_status EXCEPT !.is_syncing = TRUE]
            /\ qlock' = ""
            /\ dpc' = "process"
            /\ slept' = slept
       ELSE /\ sync_status' = [sync_status EXCEPT !.is_syncing = FALSE]
            /\ qlock' = qlock
            /\ dpc' = "idle_sleep"
            /\ slept' = IDLE_POLL_SECS
    /\ UNCHANGED << upload_queue, slock, max_retries, d_state, d_data, d_idx,
                    ppc, pstate, enq, uploads, attempts >>
    /\ UNCHANGED storeVars

\* the sleep ends and the loop goes on with the queue guard still alive
LoopWakeKeepsGuard ==
    /\ dpc = "idle_sleep"
    /\ dpc' = "top"
    /\ UNCHANGED << upload_queue, sync_status, qlock, slock, max_retries,
                    d_state, d_data, d_idx, ppc, pstate, enq, uploads,
                    attempts, slept >>
    /\ UNCHANGED storeVars

\* lines 93-94: the sleep ends, continue drops the queue guard
LoopWake ==
    /\ dpc = "idle_sleep"
    /\ qlock' = ""
    /\ dpc' = "top"
    /\ UNCHANGED << upload_queue, sync_status, slock, max_retries, d_state,
                    d_data, d_idx, ppc, pstate, enq, uploads, attempts, slept >>
    /\ UNCHANGED storeVars

\* taking the newest item instead of the oldest
QueueRemoveLast(queue) ==
    [item |-> queue[Len(queue)], rest |-> SubSeq(queue, 1, Len(queue) - 1)]

\* the head taken and the rest of the queue thrown away
QueueTakeAll(queue) == [item |-> Head(queue), rest |-> << >>]

\* queue[0].clone(): the head is read and left on the queue
QueuePeek(queue) == [item |-> Head(queue), rest |-> queue]

\* queue.remove(0)
QueueRemove0(queue) == [item |-> Head(queue), rest |-> Tail(queue)]

\* process_next_upload, lines 134-140: lock the queue; empty: return Ok;
\* otherwise take the first item off the queue and drop the lock
ProcessLock ==
    /\ dpc = "process"
    /\ qlock = ""
    /\ IF upload_queue = << >>
       THEN /\ attempts' = Append(attempts, [timestamp |-> 0, ok |-> TRUE])
            /\ dpc' = "ok"
            /\ UNCHANGED << upload_queue, d_state >>
       ELSE /\ d_state' = QueueRemove0(upload_queue).item
            /\ upload_queue' = QueueRemove0(upload_queue).rest
            /\ dpc' = "read"
            /\ attempts' = attempts
    /\ UNCHANGED << sync_status, qlock, slock, max_retries, d_data, d_idx, ppc,
                    pstate, enq, uploads, slept >>
    /\ UNCHANGED storeVars

\* lines 143-149: tokio::fs::read(&segment_path).await?, then the chunks.
\* On Err the function returns and its UploadState is dropped.
ProcessRead ==
    /\ dpc = "read"
    /\ \E outcome \in ReadOutcomes :
          IF outcome = "ok" /\ d_state.segment_path \in DOMAIN segs
          THEN /\ d_data' = segs[d_state.segment_path]
               /\ d_idx' = 0
               /\ dpc' = "chunks"
               /\ UNCHANGED << d_state, attempts >>
          ELSE /\ attempts' = Append(attempts,
                                     [timestamp |-> d_state.timestamp, ok |-> FALSE])
               /\ d_state' = NoState
               /\ dpc' = "err"
               /\ UNCHANGED << d_data, d_idx >>
    /\ UNCHANGED << upload_queue, sync_status, qlock, slock, max_retries, ppc,
                    pstate, enq, uploads, slept >>
    /\ UNCHANGED storeVars

\* lines 154-161, one round of the for loop: mock_upload_chunk(idx, chunk)?
ProcessChunk ==
    /\ dpc = "chunks"
    /\ d_idx < NumChunks(d_data)
    /\ \E outcome \in MockUploadChunk :
          IF outcome = "ok"
          THEN /\ uploads' = Append(uploads, << d_state.timestamp, d_idx,
                                                Chunk(d_data, d_idx) >>)
               /\ d_idx' = d_idx + 1
               /\ UNCHANGED << d_state, d_data, attempts, dpc >>
          ELSE /\ attempts' = Append(attempts,
                                     [timestamp |-> d_state.timestamp, ok |-> FALSE])
               /\ d_state' = NoState
               /\ d_data' = << >>
               /\ d_idx' = 0
               /\ dpc' = "err"
               /\ uploads' = uploads
    /\ UNCHANGED << upload_queue, sync_status, qlock, slock, max_retries, ppc,
                    pstate, enq, slept >>
    /\ UNCHANGED storeVars

\* line 163: the loop is over, Ok(())
ProcessDone ==
    /\ dpc = "chunks"
    /\ d_idx = NumChunks(d_data)
    /\ attempts' = Append(attempts, [timestamp |-> d_state.timestamp, ok |-> TRUE])
    /\ d_state' = NoState
    /\ d_data' = << >>
    /\ d_idx' = 0
    /\ dpc' = "ok"
    /\ UNCHANGED << upload_queue, sync_status, qlock, slock, max_retries, ppc,
                    pstate, enq, uploads, slept >>
    /\ UNCHANGED storeVars

\* lines 102-116: the Ok arm
LoopOk ==
    /\ dpc = "ok"
    /\ slock = ""
    /\ sync_status' = [sync_status EXCEPT
                          !.total_segments_synced = @ + 1,
                          !.last_sync_time = DaemonNow]
    /\ max_retries' = INITIAL_RETRIES
    /\ dpc' = "top"
    /\ UNCHANGED << upload_queue, qlock, slock, d_state, d_data, d_idx, ppc,
                    pstate, enq, uploads, attempts, slept >>
    /\ UNCHANGED storeVars

Min(a, b) == IF a <= b THEN a ELSE b

\* 2_u64.min((max_retries as u64).saturating_mul(2)).min(120)
BackoffSecs(retries) == Min(Min(2, retries * 2), 120)

\* lines 118-123: the Err arm up to the sleep; the status guard stays alive
\* until the end of the arm
LoopErr ==
    /\ dpc = "err"
    /\ slock = ""
    /\ slock' = "daemon"
    /\ sync_status' = [sync_status EXCEPT !.upload_errors = @ + 1]
    /\ slept' = BackoffSecs(max_retries)
    /\ dpc' = "backoff"
    /\ UNCHANGED << upload_queue, qlock, max_retries, d_state, d_data, d_idx,
                    ppc, pstate, enq, uploads, attempts >>
    /\ UNCHANGED storeVars

\* the same lines without the reset at 0
LoopBackoffNoReset ==
    /\ dpc = "backoff"
    /\ max_retries' = IF max_retries = 0 THEN 0 ELSE max_retries - 1
    /\ slock' = ""
    /\ dpc' = "top"
    /\ UNCHANGED << upload_queue, sync_status, qlock, d_state, d_data, d_idx,
                    ppc, pstate, enq, uploads, attempts, slept >>
    /\ UNCHANGED storeVars

\* lines 124-128: after the sleep, max_retries.saturating_sub(1), reset to
\* 7 at 0; the status guard is dropped
LoopBackoffDone ==
    /\ dpc = "backoff"
    /\ max_retries' = IF max_retries <= 1 THEN INITIAL_RETRIES ELSE max_retries - 1
    /\ slock' = ""
    /\ dpc' = "top"
    /\ UNCHANGED << upload_queue, sync_status, qlock, d_state, d_data, d_idx,
                    ppc, pstate, enq, uploads, attempts, slept >>
    /\ UNCHANGED storeVars

NextSync ==
    \/ \E c \in Callers, path \in SyncPaths : QueueChecksum(c, path)
    \/ \E c \in Callers : QueuePush(c)
    \/ LoopLock
    \/ LoopFlag
    \/ LoopWake
    \/ ProcessLock
    \/ ProcessRead
    \/ ProcessChunk
    \/ ProcessDone
    \/ LoopOk
    \/ LoopErr
    \/ LoopBackoffDone

\* the sync daemon: one sync_loop task and the callers of queue_segment
SpecSync == InitSync /\ [][NextSync]_vars

\* the daemon's own steps: sync_loop and the process_next_upload it calls
DaemonStep ==
    \/ LoopLock
    \/ LoopFlag
    \/ LoopWake
    \/ ProcessLock
    \/ ProcessRead
    \/ ProcessChunk
    \/ ProcessDone
    \/ LoopOk
    \/ LoopErr
    \/ LoopBackoffDone

\* The sync_loop task is spawned on the tokio runtime (src/src/main.rs:33),
\* which keeps polling a task that can run, and its sleeps end: a daemon step
\* that stays possible is taken.  The callers of queue_segment hold neither
\* mutex across an await, so they cannot keep the daemon waiting for ever.
SpecSyncLive == InitSync /\ [][NextSync]_vars /\ WF_vars(DaemonStep)

\* ------------------------------------------- segments of every length
\* The daemon over a root whose one segment file has any length from 0 to
\* that of a large frame: the file of a store that was killed while it wrote
\* the frame (a write can stop after any byte) and was constructed again.
InitChunk ==
    LET r == [topic |-> TopicBC, namespace |-> NsR, payload |-> BigPayload,
              timestamp |-> 1]
    IN  /\ \E l \in 0..Len(FrameData(r)) :
              /\ segs = << >> @@ (0 :> SubSeq(FrameData(r), 1, l))
              /\ synced = << >> @@ (0 :> l)
              /\ ev = Ev("new", 0, 0, l, 0)
        /\ ckpt = Absent
        /\ tmp = Absent
        /\ up = TRUE
        /\ inner = [current_segment |-> 0, current_segment_size |-> 0]
        /\ lock = 0
        /\ pc = [t \in Tasks |-> "idle"]
        /\ op = [t \in Tasks |-> "none"]
        /\ rec = [t \in Tasks |-> NoRec]
        /\ rotated = [t \in Tasks |-> FALSE]
        /\ calls = 1
        /\ crashes = 1
        /\ log = << >>
        /\ acq = << RecordOfInput(r) >>
        /\ hiSeg = 0
        /\ lastRot = 0
        /\ SyncDaemonNew

SpecChunk == InitChunk /\ [][NextSync]_vars

\* ------------------------------------------- the daemon after failures
\* The daemon at the top of its loop after k failed uploads in a row, k from
\* 0 to 6: the queue is empty again, upload_errors is k and the budget is
\* 7 - k.  The root holds one segment with one frame.  enq, uploads and
\* attempts record what happens from here on.
InitBudget ==
    LET r == [topic |-> TopicA, namespace |-> NsR, payload |-> SmallPayload,
              timestamp |-> 1]
    IN  /\ segs = << >> @@ (0 :> FrameData(r))
        /\ synced = << >> @@ (0 :> Len(FrameData(r)))
        /\ ckpt = Absent
        /\ tmp = Absent
        /\ up = TRUE
        /\ inner = [current_segment |-> 0,
                    current_segment_size |-> Len(FrameData(r))]
        /\ lock = 0
        /\ pc = [t \in Tasks |-> "idle"]
        /\ op = [t \in Tasks |-> "none"]
        /\ rec = [t \in Tasks |-> NoRec]
        /\ rotated = [t \in Tasks |-> FALSE]
        /\ calls = 1
        /\ crashes = 0
        /\ log = << RecordOfInput(r) >>
        /\ acq = << RecordOfInput(r) >>
        /\ hiSeg = 0
        /\ lastRot = 0
        /\ ev = Ev("append_ok", 1, 0, 0, 0)
        /\ upload_queue = << >>
        /\ \E k \in 0..(INITIAL_RETRIES - 1) :
              /\ max_retries = INITIAL_RETRIES - k
              /\ sync_status = [is_syncing |-> k > 0, last_sync_time |-> 0,
                                upload_errors |-> k, total_segments_synced |-> 0]
              /\ slept = IF k > 0 THEN BackoffSecs(max_retries + 1) ELSE 0
        /\ qlock = ""
        /\ slock = ""
        /\ dpc = "top"
        /\ d_state = NoState
        /\ d_data = << >>
        /\ d_idx = 0
        /\ ppc = [c \in Callers |-> "idle"]
        /\ pstate = [c \in Callers |-> NoState]
        /\ enq = << >>
        /\ uploads = << >>
        /\ attempts = << >>

SpecBudget == InitBudget /\ [][NextSync]_vars

\* ------------------------------------------------ the program of main.rs
\* main builds one Storage and one SyncDaemon, spawns sync_loop and hands the
\* Storage to the recorder.  No code under src/ calls queue_segment, so the
\* queue of this program stays empty and sync_loop only runs its idle round:
\* lock, flag, sleep, wake.
NextMain ==
    \/ \E t \in Tasks : Step(t)
    \/ LoopLock
    \/ LoopFlag
    \/ LoopWake

SpecMain == Init /\ [][NextMain]_vars

\* ------------------------------------------------- the daemon is cancelled
\* src/src/main.rs:51, sync_handle.abort(): the sync_loop task is dropped at
\* the await it is suspended in, and the guards and locals of the dropped
\* future go with it.  The awaits are the two lock().await, the sleeps and
\* tokio::fs::read; mock_upload_chunk has no await inside, so the chunk loop
\* of lines 154-161 runs through without a point where the task can be
\* dropped.  d_state, d_data and d_idx keep the values the dropped call had.
Abort ==
    /\ dpc \in {"top", "flag", "idle_sleep", "process", "read", "ok", "err",
                "backoff"}
    /\ dpc' = "aborted"
    /\ qlock' = IF qlock = "daemon" THEN "" ELSE qlock
    /\ slock' = IF slock = "daemon" THEN "" ELSE slock
    /\ UNCHANGED << upload_queue, sync_status, max_retries, d_state, d_data,
                    d_idx, ppc, pstate, enq, uploads, attempts, slept >>
    /\ UNCHANGED storeVars

NextAbort == NextSync \/ Abort

\* the sync daemon, cancelled at some point of its run
SpecAbort == InitSync /\ [][NextAbort]_vars

\* tokio::sync::Mutex hands the lock out in the order of the requests, so a
\* queue_segment that waits at upload_queue.lock() (line 77) gets the mutex
\* once the daemon drops it, before the daemon's next request: a push that
\* is possible again and again is taken.
SpecSyncFifo ==
    /\ InitSync
    /\ [][NextSync]_vars
    /\ WF_vars(DaemonStep)
    /\ \A c \in Callers : SF_vars(QueuePush(c))

\* ------------------------------------------------- every mutex at once
\* get_status, lines 61-63: a caller asks for the status ...
CallGetStatus(c) ==
    /\ ppc[c] = "idle"
    /\ ppc' = [ppc EXCEPT ![c] = "status"]
    /\ UNCHANGED << upload_queue, sync_status, qlock, slock, dpc, max_retries,
                    d_state, d_data, d_idx, pstate, enq, uploads, attempts,
                    slept >>
    /\ UNCHANGED storeVars

\* ... and self.sync_status.lock().await.clone() completes: the guard is a
\* temporary of this one statement
GetStatus(c) ==
    /\ ppc[c] = "status"
    /\ slock = ""
    /\ ppc' = [ppc EXCEPT ![c] = "idle"]
    /\ UNCHANGED << upload_queue, sync_status, qlock, slock, dpc, max_retries,
                    d_state, d_data, d_idx, pstate, enq, uploads, attempts,
                    slept >>
    /\ UNCHANGED storeVars

\* The store after MaxCalls - 1 calls, forced rotations and then one append
\* of the small record: the current segment holds one frame, the next large
\* append overflows it.  The daemon has not run yet and MaxEnqueues - 1
\* queue_segment calls for the current segment have completed.
InitLocks ==
    LET k == MaxCalls - 1
        r == [topic |-> TopicA, namespace |-> NsR, payload |-> SmallPayload,
              timestamp |-> k]
    IN  /\ segs = [n \in 1..(k - 1) |-> IF n = k - 1 THEN FrameData(r) ELSE << >>]
        /\ synced = [n \in 1..(k - 1) |-> Len(segs[n])]
        /\ ckpt = Manifest(k - 2, k - 1)
        /\ tmp = Absent
        /\ up = TRUE
        /\ inner = [current_segment |-> k - 1,
                    current_segment_size |-> Len(FrameData(r))]
        /\ lock = 0
        /\ pc = [t \in Tasks |-> "idle"]
        /\ op = [t \in Tasks |-> "none"]
        /\ rotated = [t \in Tasks |-> FALSE]
        /\ calls = k
        /\ crashes = 0
        /\ log = << RecordOfInput(r) >>
        /\ acq = << RecordOfInput(r) >>
        /\ hiSeg = k - 1
        /\ lastRot = k - 1
        /\ \E t \in Tasks :
              /\ rec = [u \in Tasks |-> IF u = t THEN r ELSE NoRec]
              /\ ev = Ev("append_ok", t, k - 1, 0, 0)
        /\ enq = [i \in 1..(MaxEnqueues - 1) |->
                     [segment_path |-> k - 1,
                      segment_sha256 |-> Sha256(FrameData(r)),
                      chunks_uploaded |-> << >>,
                      timestamp |-> i]]
        /\ upload_queue = enq
        /\ sync_status = [is_syncing |-> FALSE, last_sync_time |-> 0,
                          upload_errors |-> 0, total_segments_synced |-> 0]
        /\ qlock = ""
        /\ slock = ""
        /\ dpc = "top"
        /\ max_retries = INITIAL_RETRIES
        /\ d_state = NoState
        /\ d_data = << >>
        /\ d_idx = 0
        /\ ppc = [c \in Callers |-> "idle"]
        /\ pstate = [c \in Callers |-> NoState]
        /\ uploads = << >>
        /\ attempts = << >>
        /\ slept = 0

NextLocks ==
    \/ NextSync
    \/ \E c \in Callers : CallGetStatus(c) \/ GetStatus(c)
    \/ \E t \in Tasks : Step(t)

\* the store's tasks, the sync daemon, and the callers of queue_segment and
\* get_status side by side
SpecLocks == InitLocks /\ [][NextLocks]_vars

\* ------------------------------------------- a queued segment file vanishes

\* A segment file that waits in the upload queue is removed from the root by
\* something other than this program (one file per run).  The read of line
\* 144 then fails for it, whatever ReadOutcomes draws.
Vanish(path) ==
    /\ DOMAIN segs = 0..hiSeg
    /\ path \in DOMAIN segs
    /\ \E i \in 1..Len(upload_queue) : upload_queue[i].segment_path = path
    /\ segs' = [n \in DOMAIN segs \ {path} |-> segs[n]]
    /\ UNCHANGED << synced, ckpt, tmp, up, inner, lock, pc, op, rec, rotated,
                    calls, crashes, log, acq, hiSeg, lastRot, ev >>
    /\ UNCHANGED syncVars

NextVanish == NextSync \/ \E path \in SyncPaths : Vanish(path)

\* the sync daemon over a root that loses one queued segment file
SpecVanish == InitSync /\ [][NextVanish]_vars

\* ------------------------------------------------ bytes behind the frames
\* the call of from_reader at which a replay of these bytes stops: its
\* result ("none" or "err") and, in next, the offset it was made at
RECURSIVE ReplayStop(_, _)
ReplayStop(bytes, pos) ==
    LET f == FromReader(bytes, pos)
    IN  IF f.kind = "some" THEN ReplayStop(bytes, f.next) ELSE f

\* the file is a sequence of complete frames and nothing else
WholeFrames(bytes) ==
    LET f == ReplayStop(bytes, 0)
    IN  f.kind = "none" /\ f.next = Len(bytes)

\* bytes that are not this program's frames: zeros (a preallocated or
\* zero-filled tail) of several lengths, part of a magic, other values, and
\* tails that happen to begin with the four magic bytes
Tails ==
    { <<0>>, <<0, 0, 0, 0>>, <<0, 0, 0, 0, 0, 0, 0, 0, 0>>,
      <<239, 190>>, <<239, 190, 173>>, <<9, 8, 7, 6, 5>>,
      MagicBytes, MagicBytes \o <<0, 0, 0, 0>>,
      MagicBytes \o <<2, 0, 0, 0, 0, 0>> }

\* main returns while no call is in progress: the process ends, the root
\* stays as it is
Exit ==
    /\ up
    /\ \A t \in Tasks : pc[t] = "idle"
    /\ up' = FALSE
    /\ ev' = Quiet
    /\ UNCHANGED << segs, synced, ckpt, tmp, inner, lock, pc, op, rec, rotated,
                    calls, crashes, log, acq, hiSeg, lastRot >>
    /\ UNCHANGED syncVars

\* something other than this program leaves bytes behind the last complete
\* frame of a segment file of a root no process is writing to
AppendTail(n) ==
    /\ ~up
    /\ ev = Quiet
    /\ segs[n] # << >>
    /\ WholeFrames(segs[n])
    /\ \E tail \in Tails : segs' = [segs EXCEPT ![n] = @ \o tail]
    /\ ev' = Ev("tail", 0, n, Len(segs[n]), 0)
    /\ UNCHANGED << synced, ckpt, tmp, up, inner, lock, pc, op, rec, rotated,
                    calls, crashes, log, acq, hiSeg, lastRot >>
    /\ UNCHANGED syncVars

NextTail ==
    \/ \E t \in Tasks : Step(t)
    \/ Exit
    \/ \E n \in DOMAIN segs : AppendTail(n)

\* one store, no kill; after the process has ended a segment file gets
\* foreign bytes at its end
SpecTail == Init /\ [][NextTail]_vars

\* --------------------------------------- a Storage over an existing root
\* the root removed and made again: every entry is gone
CreateDirFresh(fs) == << >>

\* tokio::fs::create_dir_all(&root): the entries of a directory that exists
\* stay as they are
CreateDirAll(fs) == fs

\* Storage::new, lines 79-87, after the process that wrote the root has
\* ended: create_dir_all, recover_checkpoint(&root).await?, and a
\* StorageInner with the recovered index and size 0.  No segment file is
\* opened.
Reopen ==
    /\ ~up
    /\ segs' = CreateDirAll(segs)
    /\ synced' = [m \in DOMAIN segs' |-> synced[m]]
    /\ LET r == RecoverCheckpoint(ckpt)
       IN  /\ up' = r.ok
           /\ inner' = [current_segment |-> r.segment, current_segment_size |-> 0]
           /\ ev' = Ev("new", 0, r.segment, 0, inner.current_segment)
    /\ UNCHANGED << ckpt, tmp, lock, pc, op, rec, rotated, calls, crashes, log,
                    acq, hiSeg, lastRot >>
    /\ UNCHANGED syncVars

NextReopen == NextNoCrash \/ Exit \/ Reopen

\* runs of the store that end cleanly, each followed by a new Storage over
\* the same root
SpecReopen == Init /\ [][NextReopen]_vars

\* ------------------------------------------------ a flipped payload byte
\* 1-based positions of payload bytes of the frames from offset pos on: of
\* each payload the first two bytes and the last one
RECURSIVE PayloadCells(_, _)
PayloadCells(bytes, pos) ==
    LET f == FromReader(bytes, pos)
        first == f.next - Len(f.rec[4]) + 1
    IN  IF f.kind # "some" THEN {}
        ELSE { i \in {first, first + 1, f.next} : first <= i /\ i <= f.next }
               \cup PayloadCells(bytes, f.next)

\* the offset of the frame that holds position i
RECURSIVE FrameStartOf(_, _, _)
FrameStartOf(bytes, pos, i) ==
    LET f == FromReader(bytes, pos)
    IN  IF f.kind # "some" \/ i <= f.next THEN pos
        ELSE FrameStartOf(bytes, f.next, i)

\* what a damaged byte b reads as: every bit flipped (the test's ^= 0xFF),
\* or the next value
FlipValues(b) == { 255 - b, (b + 1) % 256 }

\* something other than this program changes one payload byte of a segment
\* file of a root no process is writing to
FlipByte(n) ==
    /\ ~up
    /\ ev = Quiet
    /\ WholeFrames(segs[n])
    /\ \E i \in PayloadCells(segs[n], 0) :
          \E v \in FlipValues(segs[n][i]) :
             /\ segs' = [segs EXCEPT ![n][i] = v]
             /\ ev' = Ev("flip", 0, n, i, segs[n][i])
    /\ UNCHANGED << synced, ckpt, tmp, up, inner, lock, pc, op, rec, rotated,
                    calls, crashes, log, acq, hiSeg, lastRot >>
    /\ UNCHANGED syncVars

NextFlip ==
    \/ \E t \in Tasks : Step(t)
    \/ Exit
    \/ \E n \in DOMAIN segs : FlipByte(n)

\* one store, no kill; after the process has ended one payload byte of a
\* segment file changes
SpecFlip == Init /\ [][NextFlip]_vars

\* ---------------------------------------------------------- list_segments
\* file names, one cell per ASCII character
RECURSIVE Digits(_)
Digits(n) == IF n < 10 THEN <<48 + n>> ELSE Digits(n \div 10) \o <<48 + (n % 10)>>

SegmentPrefix == <<115, 101, 103, 109, 101, 110, 116, 45>>

LogSuffix == <<46, 108, 111, 103>>

\* format!("segment-{}.log", n)
SegmentName(n) == SegmentPrefix \o Digits(n) \o LogSuffix

CheckpointName == <<46, 99, 104, 101, 99, 107, 112, 111, 105, 110, 116>>

CheckpointTmpName == CheckpointName \o <<46, 116, 109, 112>>

\* read_dir: the names in the root
DirEntries ==
    { SegmentName(n) : n \in DOMAIN segs }
      \cup (IF ckpt = Absent THEN {} ELSE {CheckpointName})
      \cup (IF tmp = Absent THEN {} ELSE {CheckpointTmpName})

StartsWith(name, prefix) ==
    Len(name) >= Len(prefix) /\ SubSeq(name, 1, Len(prefix)) = prefix

EndsWith(name, suffix) ==
    Len(name) >= Len(suffix)
      /\ SubSeq(name, Len(name) - Len(suffix) + 1, Len(name)) = suffix

\* Ord of two paths in one directory: their names compared byte by byte
RECURSIVE LexLess(_, _)
LexLess(a, b) ==
    IF b = << >> THEN FALSE
    ELSE IF a = << >> THEN TRUE
    ELSE IF Head(a) # Head(b) THEN Head(a) < Head(b)
    ELSE LexLess(Tail(a), Tail(b))

\* out.sort()
RECURSIVE SortPaths(_)
SortPaths(S) ==
    IF S = {} THEN << >>
    ELSE LET least == CHOOSE a \in S : \A b \in S \ {a} : LexLess(a, b)
         IN  <<least>> \o SortPaths(S \ {least})

\* Storage::list_segments
ListSegments ==
    SortPaths({ name \in DirEntries :
                  StartsWith(name, SegmentPrefix) /\ EndsWith(name, LogSuffix) })

\* A store constructed over a root that earlier runs rotated
\* EarlierRotations times: segment-1.log .. segment-{k}.log exist, the
\* checkpoint is the one the last rotation wrote.
EarlierRotations == 3 * MaxCalls

InitLongRun ==
    /\ segs = [m \in 1..EarlierRotations |-> << >>]
    /\ synced = [m \in 1..EarlierRotations |-> 0]
    /\ ckpt = Manifest(EarlierRotations - 1, 0)
    /\ tmp = Absent
    /\ up = TRUE
    /\ inner = [current_segment |-> RecoverCheckpoint(ckpt).segment,
                current_segment_size |-> 0]
    /\ lock = 0
    /\ pc = [t \in Tasks |-> "idle"]
    /\ op = [t \in Tasks |-> "none"]
    /\ rec = [t \in Tasks |-> NoRec]
    /\ rotated = [t \in Tasks |-> FALSE]
    /\ calls = 0
    /\ crashes = 0
    /\ log = << >>
    /\ acq = << >>
    /\ hiSeg = EarlierRotations
    /\ lastRot = EarlierRotations
    /\ ev = Ev("new", 0, RecoverCheckpoint(ckpt).segment, 0, 0)
    /\ SyncDaemonNew

SpecLongRun == InitLongRun /\ [][NextNoCrash]_vars

\* ================================================================= claims
IsPrefix(a, b) == Len(a) <= Len(b) /\ SubSeq(b, 1, Len(a)) = a

FileLen(n) == IF n \in DOMAIN segs THEN Len(segs[n]) ELSE 0

\* replay_segment over the files n..hi that exist, in numeric order
RECURSIVE ReplayRange(_, _, _, _)
ReplayRange(fs, n, hi, acc) ==
    IF n > hi THEN [ok |-> TRUE, records |-> acc]
    ELSE IF n \notin DOMAIN fs THEN ReplayRange(fs, n + 1, hi, acc)
    ELSE LET r == ReplaySegment(fs[n])
         IN  IF r.ok THEN ReplayRange(fs, n + 1, hi, acc \o r.records)
             ELSE [ok |-> FALSE, records |-> << >>]

ReplayRoot == ReplayRange(segs, 0, MaxCalls + 1, << >>)

RecordOf(r) == << r.topic, r.namespace, r.timestamp, r.payload >>

\* the longest frame the callers produce
MaxFrameSize ==
    CHOOSE n \in { Len(FrameData([topic |-> in.topic, namespace |-> in.namespace,
                                  payload |-> in.payload, timestamp |-> 0])) :
                   in \in Inputs } :
        \A in \in Inputs :
            Len(FrameData([topic |-> in.topic, namespace |-> in.namespace,
                           payload |-> in.payload, timestamp |-> 0])) <= n

\* an append, a rotation or a construction has just completed
Durable == ev.kind \in {"append_ok", "rotate_ok", "new"}

RotatePcs == {"r_lock", "r_tmp", "r_rename", "r_create"}

\* C1. Round-trip: on one store instance, replaying the segments in numeric
\* order yields exactly the records written so far, in the order of their
\* writes, whatever rotations (size-triggered or forced) came in between.
RoundTrip ==
    /\ ReplayRoot.ok
    /\ ReplayRoot.records = log

\* C1 witness: three records were written and they lie in two segments
RoundTripWitness ==
    /\ Len(log) = 3
    /\ Cardinality({ n \in DOMAIN segs : segs[n] # << >> }) = 2
    /\ \A t \in Tasks : pc[t] = "idle"

\* C2, first half: when append_record has just returned Ok, the whole frame
\* is in the segment file and inside the part covered by sync_all.
AckedFrameSynced ==
    ev.kind = "append_ok" =>
        LET frame == FrameData(rec[ev.t])
        IN  /\ ev.seg \in DOMAIN segs
            /\ SubSeq(segs[ev.seg], ev.off + 1, ev.off + Len(frame)) = frame
            /\ synced[ev.seg] >= ev.off + Len(frame)

\* C2, second half: the segment as it is when append_record has just
\* returned Ok (what a kill at that instant leaves) replays that record.
AckedRecordReplays ==
    ev.kind = "append_ok" =>
        LET r == ReplaySegment(segs[ev.seg])
        IN  /\ r.ok
            /\ \E i \in 1..Len(r.records) : r.records[i] = RecordOf(rec[ev.t])

\* C2. Durability ordering: append_record returns Ok only after the frame is
\* written and fsynced, and a kill after that leaves a segment whose replay
\* includes the record.
DurabilityOrdering == AckedFrameSynced /\ AckedRecordReplays

\* C3. A segment is never truncated or rewritten: every step leaves each
\* existing segment file in place with its old bytes as a prefix of the new
\* ones, and leaves unchanged every segment below an index the root's
\* rotation has already reached.
NeverTruncated ==
    [][ \A m \in DOMAIN segs :
           /\ m \in DOMAIN segs'
           /\ IsPrefix(segs[m], segs'[m])
           /\ (m < hiSeg => segs'[m] = segs[m]) ]_vars

\* C4. Checkpoint recovery: a store constructed over a root whose last
\* completed rotation moved to index N+1 starts with current_segment = N+1.
RecoversPostRotationIndex ==
    (ev.kind = "new" /\ lastRot > 0) => inner.current_segment = lastRot

\* C5. Monotonic segment index on one log root: current_segment never
\* decreases, every completed rotation increases it, and every rotation
\* moves to an index above the one the previous rotation moved to.
MonotonicSegmentIndex ==
    [][ /\ inner'.current_segment >= inner.current_segment
        /\ (ev'.kind = "rotate_ok" =>
               /\ inner'.current_segment > inner.current_segment
               /\ inner'.current_segment > lastRot) ]_vars

\* C6. A rotate_segment that has just returned Ok has advanced
\* current_segment by exactly 1 from its value when the call took the lock,
\* left current_segment_size at 0, created segment-{N+1}.log and returned
\* the path of that file.
RotateAdvancesByOne ==
    ev.kind = "rotate_ok" =>
        /\ inner.current_segment = ev.prev + 1
        /\ inner.current_segment_size = 0
        /\ ev.seg = ev.prev + 1
        /\ ev.seg \in DOMAIN segs

\* C6 witness: a second rotation has just returned, from index 1 to index 2
RotateAdvancesWitness ==
    ev.kind = "rotate_ok" /\ ev.prev = 1 /\ 2 \in DOMAIN segs

\* C7. Size bound: in every durable state every segment file is at most
\* max_segment_size long.
SizeBound ==
    Durable => \A m \in DOMAIN segs : Len(segs[m]) <= MAX_SEGMENT_SIZE

\* C8. Relaxed size bound: in every durable state every segment file is at
\* most max_segment_size + max_single_frame_size long, and an append that
\* finds the current segment above max_segment_size rotates before it writes.
RelaxedSizeBound ==
    /\ Durable =>
          \A m \in DOMAIN segs : Len(segs[m]) <= MAX_SEGMENT_SIZE + MaxFrameSize
    /\ \A t \in Tasks :
          (pc[t] = "a_write" /\ ~rotated[t]) =>
              FileLen(inner.current_segment) <= MAX_SEGMENT_SIZE

\* C9. A record whose frame is larger than max_segment_size is rejected:
\* its append never reaches the rotation or the write, and no such record
\* is ever written.
OversizeRejected ==
    /\ \A t \in Tasks :
          (op[t] = "append" /\ Len(FrameData(rec[t])) > MAX_SEGMENT_SIZE) =>
              pc[t] \notin RotatePcs \cup {"a_relock", "a_write", "a_sync"}
    /\ \A i \in 1..Len(log) :
          Len(FrameData([topic |-> log[i][1], namespace |-> log[i][2],
                         timestamp |-> log[i][3], payload |-> log[i][4]]))
              <= MAX_SEGMENT_SIZE

\* C10. Checkpoint crash-atomicity: whatever the instant of a kill,
\* .checkpoint is absent (never written) or holds one complete manifest that
\* a rotation wrote; it is never torn.
CheckpointNeverTorn ==
    \/ ckpt = Absent
    \/ \E n \in 0..hiSeg, c \in 0..calls : ckpt = Manifest(n, c)

\* C10 witness: a kill cut the write of .checkpoint.tmp short while an
\* older .checkpoint existed
CheckpointNeverTornWitness ==
    /\ ev.kind = "new"
    /\ tmp # Absent
    /\ ~ParseManifest(tmp).ok
    /\ ckpt # Absent

\* C11. A store constructed over a root whose .checkpoint does not parse is
\* constructed all the same, and it starts with current_segment = 0 and
\* current_segment_size = 0.
MalformedCheckpointTolerated ==
    (ev.kind = "new" /\ ckpt # Absent /\ ~ParseManifest(ckpt).ok) =>
        /\ up
        /\ inner = [current_segment |-> 0, current_segment_size |-> 0]

\* the bytes AppendTail has just put behind the frames, and the file before
TailBytes == SubSeq(segs[ev.seg], ev.off + 1, Len(segs[ev.seg]))

BeforeTail == SubSeq(segs[ev.seg], 1, ev.off)

StartsWithMagic(bytes) == Len(bytes) >= 4 /\ SubSeq(bytes, 1, 4) = MagicBytes

\* C12 as stated: whatever bytes are appended behind the last complete
\* frame of a segment, replay_segment succeeds and returns the same records
\* as before.
ArbitraryTailIgnored ==
    ev.kind = "tail" =>
        /\ ReplaySegment(segs[ev.seg]).ok
        /\ ReplaySegment(segs[ev.seg]).records = ReplaySegment(BeforeTail).records

\* C12, amended: bytes appended behind the last complete frame that do not
\* begin with the four magic bytes (zeros, fewer than four bytes, anything
\* else) leave the result of replay_segment unchanged: from_reader returns
\* None at the tail.
TailWithoutMagicIgnored ==
    (ev.kind = "tail" /\ ~StartsWithMagic(TailBytes)) =>
        /\ ReplaySegment(segs[ev.seg]).ok
        /\ ReplaySegment(segs[ev.seg]).records = ReplaySegment(BeforeTail).records
        /\ ReplayStop(segs[ev.seg], 0).kind = "none"
        /\ ReplayStop(segs[ev.seg], 0).next = ev.off

\* C12 witness: nine zero bytes lie behind two complete frames
TailWithoutMagicWitness ==
    /\ ev.kind = "tail"
    /\ TailBytes = <<0, 0, 0, 0, 0, 0, 0, 0, 0>>
    /\ Len(ReplaySegment(BeforeTail).records) = 2

\* the segment the killed process was writing, and how many bytes of a frame
\* the kill left behind the bytes that file had before
KilledFile == IF ev.prev \in DOMAIN segs THEN segs[ev.prev] ELSE << >>

TornBytes == Len(KilledFile) - ev.off

\* a kill has just cut a frame short behind a file of whole frames
TornFrame ==
    /\ ev.kind = "new"
    /\ TornBytes > 0
    /\ WholeFrames(SubSeq(KilledFile, 1, ev.off))

\* C13, first half: a frame with its magic in place that is cut inside the
\* metadata length, the metadata or the payload makes from_reader fail on a
\* short read, and replay_segment returns that error and no records.
TornFrameFails ==
    (TornFrame /\ TornBytes >= 4) =>
        /\ ~ReplaySegment(KilledFile).ok
        /\ ReplaySegment(KilledFile).records = << >>
        /\ ReplayStop(KilledFile, 0).err = "truncated"
        /\ ReplayStop(KilledFile, 0).next = ev.off

\* C13, second half: replay_segment ends cleanly only where no byte of a
\* next frame is left.
OnlyCleanCutEnds ==
    TornFrame => ~ReplaySegment(KilledFile).ok

\* C13. A frame cut short behind its magic is a TruncatedFrame error that
\* replay_segment propagates, and only a cut that leaves no byte of a next
\* frame is a clean end of stream.
TornFrameIsError == TornFrameFails /\ OnlyCleanCutEnds

\* the file FlipByte has just damaged, as it was before
BeforeFlip == [segs[ev.seg] EXCEPT ![ev.off] = ev.prev]

RECURSIVE NumericOrder(_)
NumericOrder(S) ==
    IF S = {} THEN << >>
    ELSE LET least == CHOOSE n \in S : \A m \in S : n <= m
         IN  <<SegmentName(least)>> \o NumericOrder(S \ {least})

\* C15. list_segments returns every segment-{N}.log of the root, neither
\* .checkpoint nor .checkpoint.tmp, in the order of the numeric index N,
\* also when there are indices of 10 and more.
ListedInNumericOrder == ListSegments = NumericOrder(DOMAIN segs)

\* ---- sync daemon
\* position of the UploadState with this timestamp in the order of the pushes
EnqPos(ts) == CHOOSE i \in 1..Len(enq) : enq[i].timestamp = ts

\* the uploads made for the UploadState with this timestamp, in their order
UploadsOf(ts) == SelectSeq(uploads, LAMBDA u : u[1] = ts)

\* every chunk of the item's segment was uploaded once, in index order
FullyUploaded(item) ==
    UploadsOf(item.timestamp) =
        [i \in 1..NumChunks(segs[item.segment_path]) |->
            << item.timestamp, i - 1, Chunk(segs[item.segment_path], i - 1) >>]

\* a process_next_upload call on the item has returned Ok
OkAttempt(item) ==
    \E k \in 1..Len(attempts) :
        attempts[k].timestamp = item.timestamp /\ attempts[k].ok

InQueue(item) ==
    \E k \in 1..Len(upload_queue) : upload_queue[k].timestamp = item.timestamp

\* C16. Upload FIFO: the daemon processes the segments in the order of
\* their pushes; a chunk of a segment pushed earlier is never uploaded after
\* a chunk of one pushed later; when the call for a segment returns Ok all
\* its chunks are uploaded; and while every call has succeeded
\* total_segments_synced counts the segments done, one for each in turn.
UploadFifo ==
    /\ \A i \in 1..Len(attempts) : attempts[i].timestamp = enq[i].timestamp
    /\ \A i, j \in 1..Len(uploads) :
          i < j => EnqPos(uploads[i][1]) <= EnqPos(uploads[j][1])
    /\ \A i \in 1..Len(attempts) : attempts[i].ok => FullyUploaded(enq[i])
    /\ (\A i \in 1..Len(attempts) : attempts[i].ok) =>
          sync_status.total_segments_synced =
              Len(attempts) - (IF dpc = "ok" THEN 1 ELSE 0)

\* C16 witness: segment-0.log was pushed before segment-1.log, both are
\* uploaded (2 and 3 chunks) and counted
UploadFifoWitness ==
    /\ Len(enq) >= 2
    /\ enq[1].segment_path = 0
    /\ enq[2].segment_path = 1
    /\ Len(uploads) = 5
    /\ sync_status.total_segments_synced = 2

\* C17. Upload resumption: a segment whose attempt failed after k of its m
\* chunks is attempted again and gets the remaining m - k chunks, none
\* twice; so when the daemon finds its queue empty every segment that was
\* pushed has had each of its chunks uploaded exactly once.
UploadResumes ==
    dpc = "idle_sleep" => \A i \in 1..Len(enq) : FullyUploaded(enq[i])

\* C18. A failed attempt leaves its UploadState at the front of the queue,
\* with the chunks uploaded so far recorded in chunks_uploaded.
FailedHeadKept ==
    dpc \in {"err", "backoff"} =>
        /\ upload_queue # << >>
        /\ Head(upload_queue).timestamp = attempts[Len(attempts)].timestamp
        /\ Len(Head(upload_queue).chunks_uploaded)
              = Len(UploadsOf(Head(upload_queue).timestamp))

\* C19. Between two iterations of the loop the segments that have left the
\* queue are exactly those whose chunks were all uploaded,
\* total_segments_synced is their number and last_sync_time is set once
\* there is one.
PoppedIffUploaded ==
    dpc = "top" =>
        /\ \A i \in 1..Len(enq) :
              ~InQueue(enq[i]) <=> (OkAttempt(enq[i]) /\ FullyUploaded(enq[i]))
        /\ sync_status.total_segments_synced =
              Cardinality({ i \in 1..Len(enq) :
                              OkAttempt(enq[i]) /\ FullyUploaded(enq[i]) })
        /\ (sync_status.total_segments_synced > 0 =>
               sync_status.last_sync_time > 0)

\* C20. While the head keeps failing it is the segment of the next attempt:
\* an attempt that fails is followed by an attempt on the same segment, and
\* no segment pushed behind it is processed.
FailingHeadBlocksQueue ==
    \A i \in 1..(Len(attempts) - 1) :
        ~attempts[i].ok => attempts[i + 1].timestamp = attempts[i].timestamp

\* C21. During the sleep that follows a failed attempt the daemon sleeps
\* min(2 * retry_budget, 120) seconds, retry_budget being max_retries before
\* it is decremented: 14 with the budget at 7, then 12, 10, ..., 2.
BackoffIsTwiceBudget ==
    dpc = "backoff" => slept = Min(2 * max_retries, 120)

\* C24. The daemon does not hold the upload-queue mutex while it sleeps,
\* reads the segment or uploads a chunk.
QueueMutexNotHeldAcrossWaits ==
    dpc \in {"idle_sleep", "backoff", "read", "chunks"} => qlock # "daemon"

\* C25. The daemon does not hold the sync-status mutex while it sleeps,
\* reads the segment or uploads a chunk.
StatusMutexNotHeldAcrossWaits ==
    dpc \in {"idle_sleep", "backoff", "read", "chunks"} => slock # "daemon"

\* the attempts made for the UploadState with this timestamp
AttemptsOf(ts) == { k \in 1..Len(attempts) : attempts[k].timestamp = ts }

SyncingFollowsQueue ==
    /\ [](dpc \in {"process", "read", "chunks"} => sync_status.is_syncing)
    /\ [][sync_status'.is_syncing # sync_status.is_syncing =>
             /\ dpc = "flag"
             /\ qlock = "daemon"
             /\ sync_status'.is_syncing = (upload_queue # << >>)]_vars
    /\ (<>[](upload_queue = << >>)) => <>[](~sync_status.is_syncing)

\* the machine has gone Idle, Syncing, Idle: a segment was synced and the
\* loop found the queue empty afterwards
SyncingFollowsQueueWitness ==
    /\ sync_status.total_segments_synced > 0
    /\ ~sync_status.is_syncing
    /\ upload_queue = << >>
    /\ dpc = "idle_sleep"

\* C26. With several tasks in append_record and rotate_segment on one
\* Storage, a task that writes or syncs a frame holds the store mutex, so
\* one task at a time writes; the frames on disk, read segment by segment in
\* index order and by offset within a segment, are the records of the
\* appends in the order in which they took the mutex for their write, which
\* is also what replay returns; every segment file is a run of whole frames.
AppendsSerialized ==
    /\ \A t \in Tasks : pc[t] \in {"a_write", "a_sync"} => lock = t
    /\ Cardinality({ t \in Tasks : pc[t] \in {"a_write", "a_sync"} }) <= 1
    /\ Len(acq) = Len(log) + Cardinality({ t \in Tasks : pc[t] = "a_write" })
    /\ ReplayRoot.ok
    /\ ReplayRoot.records = SubSeq(acq, 1, Len(log))
    /\ \A n \in DOMAIN segs : WholeFrames(segs[n])

\* one task is between its write and its sync while the other waits for the
\* mutex, frames of both are on disk and a rotation lies between them
AppendsSerializedWitness ==
    \E t, u \in Tasks :
        /\ pc[t] = "a_sync"
        /\ pc[u] \in {"a_lock", "a_relock"}
        /\ Len(log) >= 2
        /\ \E i, j \in 1..Len(acq) : acq[i] # acq[j]
        /\ Cardinality({ n \in DOMAIN segs : segs[n] # << >> }) >= 2

\* C27. When a rotation has completed (its checkpoint is written and the
\* next segment is current), the segment it closed has been pushed on the
\* upload queue.
ClosedSegmentEnqueued ==
    ev.kind = "rotate_ok" =>
        \E i \in 1..Len(enq) : enq[i].segment_path = ev.prev

\* the chunks of uploads u from the i-th on, joined in their order
RECURSIVE JoinChunks(_, _)
JoinChunks(u, i) == IF i > Len(u) THEN << >> ELSE u[i][3] \o JoinChunks(u, i + 1)

\* C28. Chunking: the chunks uploaded for a segment carry the indices 0, 1,
\* 2, ... in this order; when the call has returned Ok there are ceil(L / c)
\* of them for the L bytes of the segment, each of exactly c bytes except
\* possibly the last, which has between 1 and c, and joined in index order
\* they are the bytes of the segment; two uploads of the same bytes are cut
\* at the same places.
ChunkingExact ==
    /\ \A e \in 1..Len(enq) :
          LET u == UploadsOf(enq[e].timestamp)
          IN  \A i \in 1..Len(u) : u[i][2] = i - 1
    /\ \A k \in 1..Len(attempts) :
          (attempts[k].ok /\ attempts[k].timestamp # 0) =>
              LET item == enq[EnqPos(attempts[k].timestamp)]
                  bytes == segs[item.segment_path]
                  u == UploadsOf(item.timestamp)
                  n == Len(u)
              IN  /\ n * CHUNK_SIZE >= Len(bytes)
                  /\ n > 0 => (n - 1) * CHUNK_SIZE < Len(bytes)
                  /\ \A i \in 1..(n - 1) : Len(u[i][3]) = CHUNK_SIZE
                  /\ n > 0 => Len(u[n][3]) \in 1..CHUNK_SIZE
                  /\ JoinChunks(u, 1) = bytes
                  /\ \A j \in 1..Len(attempts) :
                        (attempts[j].ok /\ attempts[j].timestamp # 0) =>
                            LET v == UploadsOf(attempts[j].timestamp)
                            IN  [i \in 1..Len(v) |-> v[i][3]] =
                                [i \in 1..n |-> u[i][3]]

\* a segment whose length is a multiple of the chunk size was uploaded: two
\* full chunks and no empty third one
ChunkingExactWitness ==
    /\ Len(segs[0]) = 2 * CHUNK_SIZE
    /\ Len(attempts) = 1
    /\ attempts[1].ok
    /\ Len(uploads) = 2

\* C29. After the daemon was cancelled while it processed a segment, the
\* segment is still in the upload queue and its entry there records the
\* chunks that were completed.
CancelKeepsSegment ==
    (dpc = "aborted" /\ d_state # NoState) =>
        \E k \in 1..Len(upload_queue) :
            /\ upload_queue[k].timestamp = d_state.timestamp
            /\ Len(upload_queue[k].chunks_uploaded) = d_idx

\* C30. Constructing a Storage over a root that holds segments and a
\* checkpoint leaves every segment file as it is: none is created, deleted
\* or changed, list_segments returns the same list with the same contents
\* before and after, the checkpoint files stay, and nothing is replayed: the
\* new store starts with size 0 without looking at what its segment holds.
ConstructionLeavesSegments ==
    [][(~up /\ ev'.kind = "new") =>
           /\ segs' = segs
           /\ ListSegments' = ListSegments
           /\ ckpt' = ckpt
           /\ tmp' = tmp
           /\ log' = log
           /\ inner'.current_segment_size = 0]_vars

\* a Storage was constructed over a root with two segments that hold frames
\* and a checkpoint
ConstructionLeavesSegmentsWitness ==
    /\ up
    /\ ev.kind = "new"
    /\ ckpt # Absent
    /\ Cardinality({ n \in DOMAIN segs : segs[n] # << >> }) >= 2
    /\ inner.current_segment \in DOMAIN segs
    /\ segs[inner.current_segment] # << >>

\* C31. An append_record that goes on to write without rotating has found
\* current_segment_size + len(frame_bytes) + slack <= max_segment_size,
\* frame_bytes being the whole encoded frame of its record; one that rotates
\* first has found the sum above the maximum.
RotatesOnFrameLength ==
    \A t \in Tasks :
        /\ (pc[t] = "a_write" /\ ~rotated[t]) =>
               inner.current_segment_size + Len(FrameData(rec[t])) + SAFETY_SLACK
                   <= MAX_SEGMENT_SIZE
        /\ (pc[t] = "r_lock" /\ op[t] = "append" /\ lock = 0
                /\ \A u \in Tasks : pc[u] \in {"idle", "a_lock", "r_lock"}) =>
               inner.current_segment_size + Len(FrameData(rec[t])) + SAFETY_SLACK
                   > MAX_SEGMENT_SIZE

\* C32. The checkpoint names the most recently rotated index: a
\* rotate_segment that returns Ok moves the store from N to N + 1 and
\* .checkpoint then holds current_segment = N; the checkpoint is in place
\* before the step that increments the index and creates the new file.
CheckpointNamesRotated ==
    /\ ev.kind = "rotate_ok" =>
          /\ inner.current_segment = ev.prev + 1
          /\ ParseManifest(ckpt).ok
          /\ ParseManifest(ckpt).segment = ev.prev
    /\ \A t \in Tasks : pc[t] = "r_create" =>
          /\ ParseManifest(ckpt).ok
          /\ ParseManifest(ckpt).segment = inner.current_segment
          /\ tmp = Absent

\* a second rotation has completed: the checkpoint was replaced and names
\* segment 1 while the store is on segment 2
CheckpointNamesRotatedWitness ==
    /\ ev.kind = "rotate_ok"
    /\ ev.prev = 1
    /\ inner.current_segment = 2
    /\ ckpt # Absent

\* C33. Retry budget: a successful process_next_upload sets the budget to
\* 7, a failed one lowers it by 1 and sets it to 7 when that gives 0, no
\* other step changes it, and the budget is always between 1 and 7.
RetryBudgetEvolution ==
    /\ [](max_retries \in 1..7)
    /\ [][/\ (dpc = "ok" /\ dpc' = "top") => max_retries' = 7
          /\ (dpc = "backoff" /\ dpc' = "top") =>
                max_retries' = IF max_retries - 1 = 0 THEN 7 ELSE max_retries - 1
          /\ (dpc' # "top" \/ dpc \notin {"ok", "backoff"}) =>
                max_retries' = max_retries]_vars

\* the seventh failure in a row has brought the budget to 0 and back to 7
RetryBudgetEvolutionWitness ==
    /\ sync_status.upload_errors = 7
    /\ sync_status.total_segments_synced = 0
    /\ max_retries = 7
    /\ dpc = "top"

\* C34. Whenever a Storage exists and no call is in progress,
\* current_segment_size is the length of segment-{current_segment}.log, 0
\* when there is no such file; also right after construction over a root
\* whose current segment holds data.
SizeCounterIsFileLength ==
    (up /\ \A t \in Tasks : pc[t] = "idle") =>
        inner.current_segment_size =
            IF inner.current_segment \in DOMAIN segs
            THEN Len(segs[inner.current_segment]) ELSE 0

\* C35. (as claimed) When rotate_segment returns Err, whichever of its
\* steps failed, current_segment and current_segment_size are what they
\* were before the call.
RotateErrLeavesState ==
    ev.kind \in {"ckpt_err", "create_err"} =>
        /\ inner.current_segment = ev.seg
        /\ inner.current_segment_size = ev.off

\* C35. When rotate_segment returns Err because the write or the rename of
\* the checkpoint failed, current_segment and current_segment_size are what
\* they were before the call and .checkpoint is untouched by the failing
\* step; when it returns Err because the new segment file could not be
\* created, the checkpoint names the old index, current_segment is already
\* the next index and current_segment_size is 0.
RotateErrByStep ==
    /\ ev.kind = "ckpt_err" =>
          /\ inner.current_segment = ev.seg
          /\ inner.current_segment_size = ev.off
    /\ ev.kind = "create_err" =>
          /\ inner.current_segment = ev.seg + 1
          /\ inner.current_segment_size = 0
          /\ ParseManifest(ckpt).segment = ev.seg
          /\ tmp = Absent

\* a rotation of a segment that holds a frame failed in File::create
RotateErrByStepWitness ==
    /\ ev.kind = "create_err"
    /\ ev.off > 0
    /\ ev.seg \in DOMAIN segs
    /\ inner.current_segment \notin DOMAIN segs

\* C36. (as claimed) When append_record returns Err, the call has changed
\* neither current_segment nor current_segment_size: not in the step that
\* failed and not through a rotation it ran before that step.
AppendErrLeavesState ==
    [][(ev'.kind \in {"ckpt_err", "create_err", "append_err"} /\ ev'.prev = 1) =>
           /\ inner' = inner
           /\ ~rotated[ev'.t]]_vars

\* C36. When append_record returns Err from open, write or fsync, the
\* failing step leaves current_segment and current_segment_size as they
\* were when the call took the lock for its write; a rotation the call ran
\* before stays in effect.  When it returns Err from the rotation step, the
\* two are unchanged if the checkpoint write or rename failed and are the
\* next index and 0 if the creation failed, and no byte of the record has
\* been written to any segment: the files are as before and the call never
\* took the lock for a write.
AppendErrByStep ==
    [][/\ ev'.kind = "append_err" => inner' = inner
       /\ (ev'.kind = "ckpt_err" /\ ev'.prev = 1) =>
             /\ inner' = inner
             /\ segs' = segs
             /\ \A i \in 1..Len(acq') : acq'[i] # RecordOfInput(rec[ev'.t])
       /\ (ev'.kind = "create_err" /\ ev'.prev = 1) =>
             /\ inner' = [current_segment |-> inner.current_segment + 1,
                          current_segment_size |-> 0]
             /\ segs' = segs
             /\ \A i \in 1..Len(acq') : acq'[i] # RecordOfInput(rec[ev'.t])]_vars

\* an append_record that had rotated failed in its write: the store is on
\* the new segment and the size is still 0
AppendErrByStepWitness ==
    /\ ev.kind = "append_err"
    /\ ev.prev = 1
    /\ ev.seg = 1
    /\ ev.off = 0
    /\ inner.current_segment = 1
    /\ 0 \in DOMAIN segs
    /\ segs[0] # << >>

\* C37. With concurrent append_record calls one overflow gives one
\* rotation: a rotation run by an append_record never closes a segment
\* without frames, and an append_record that has rotated and holds the lock
\* again writes a record that passes the size check against the segment it
\* writes to.
OneOverflowOneRotation ==
    /\ (ev.kind = "rotate_ok" /\ pc[ev.t] = "a_relock") =>
          /\ ev.prev \in DOMAIN segs
          /\ segs[ev.prev] # << >>
    /\ \A t \in Tasks :
          (pc[t] = "a_write" /\ rotated[t]) =>
              ProjectedSize(inner.current_segment_size, rec[t].payload)
                  <= MAX_SEGMENT_SIZE

\* C38. Queue conservation: at the top of every loop iteration the number
\* of UploadStates pushed equals len(upload_queue) + total_segments_synced
\* + upload_errors; total_segments_synced never exceeds the number pushed;
\* and every process_next_upload that returned Ok had taken a segment off
\* the queue.
QueueConservation ==
    /\ dpc = "top" =>
          Len(enq) = Len(upload_queue) + sync_status.total_segments_synced
                         + sync_status.upload_errors
    /\ sync_status.total_segments_synced <= Len(enq)
    /\ \A k \in 1..Len(attempts) :
          attempts[k].ok =>
              /\ attempts[k].timestamp # 0
              /\ \E i \in 1..Len(enq) :
                    /\ enq[i].timestamp = attempts[k].timestamp
                    /\ ~InQueue(enq[i])

\* at the top of the loop with a segment synced, one that failed and one
\* still queued
QueueConservationWitness ==
    /\ dpc = "top"
    /\ sync_status.total_segments_synced = 1
    /\ sync_status.upload_errors = 1
    /\ Len(upload_queue) = 1

\* C40. With a mutex that serves its waiters in turn and sleeps and
\* uploads that end, every queue_segment call that has built its UploadState
\* (its segment was readable) pushes it, and every UploadState on the queue
\* is taken off the queue by the loop, although the idle loop sleeps with
\* the queue mutex held.
EnqueuedAndPickedUp ==
    /\ \A c \in Callers : (ppc[c] = "push") ~> (ppc[c] = "idle")
    /\ \A i \in 1..MaxEnqueues :
          (Len(enq) >= i /\ InQueue(enq[i])) ~> (Len(enq) >= i /\ ~InQueue(enq[i]))

\* every push allowed has been made and taken off the queue again, and the
\* loop sleeps with the queue mutex held
EnqueuedAndPickedUpWitness ==
    /\ Len(enq) = MaxEnqueues
    /\ upload_queue = << >>
    /\ Len(attempts) = MaxEnqueues
    /\ dpc = "idle_sleep"
    /\ qlock = "daemon"

\* the steps in which a store task gets the store mutex
WaiterStep(t) == AppendLock(t) \/ AppendRelock(t) \/ RotateLock(t)

\* C39. No interleaving of sync_loop, queue_segment, get_status,
\* append_record and rotate_segment deadlocks.  The loop asks for the status
\* mutex with the queue mutex in hand and never asks for the queue mutex
\* with the status mutex in hand; a store task that asks for the store mutex
\* does not hold it (append_record has dropped it before rotate_segment);
\* and whoever holds a mutex can take a step, so every wait ends: the
\* daemon always has a step, a waiting caller finds its mutex free or in the
\* daemon's hand, the holder of the store mutex is at a step that asks for
\* no mutex (write, sync, checkpoint, rename, create), and a store task
\* that asks for the free store mutex gets it.
NoDeadlock ==
    /\ dpc = "flag" => qlock = "daemon"
    /\ slock = "daemon" => dpc \notin {"top", "process"}
    /\ \A t \in Tasks : pc[t] \in {"a_lock", "a_relock", "r_lock"} => lock # t
    /\ ENABLED DaemonStep
    /\ \A c \in Callers :
          /\ ppc[c] = "push" => (qlock = "" \/ qlock = "daemon")
          /\ ppc[c] = "status" => (slock = "" \/ slock = "daemon")
    /\ \A t \in Tasks :
          lock = t => pc[t] \in {"a_write", "a_sync", "r_tmp", "r_rename", "r_create"}
    /\ \A t \in Tasks :
          (pc[t] \in {"a_lock", "a_relock", "r_lock"} /\ lock = 0) =>
              ENABLED WaiterStep(t)

\* get_status waits while the daemon sleeps with the status mutex in hand,
\* queue_segment waits to push, and an append_record that found the overflow
\* has dropped the store mutex and is about to ask for it in rotate_segment
NoDeadlockWitness ==
    /\ dpc = "backoff"
    /\ slock = "daemon"
    /\ \E c, d \in Callers : ppc[c] = "status" /\ ppc[d] = "push"
    /\ \E t \in Tasks :
          /\ pc[t] = "r_lock"
          /\ op[t] = "append"
          /\ lock = 0

====
